---------------------------- MODULE Spec2Model ----------------------------
(***************************************************************************)
(* A model of the pot-matching-engine: the deterministic domain model      *)
(* (src/matching/domain_model.py), the three dimension scorers, the        *)
(* composite ranker and the pairwise orchestrator (src/matching/engine.py).*)
(*                                                                         *)
(* Numbers.  Python floats are modelled as exact fixed-point integers in   *)
(* millionths: 1.0 is One, 0.3 is 300000.  Every literal and weight of the *)
(* source is a multiple of 0.05.  A quotient (the Jaccard ratio, a cosine) *)
(* and a weighted product are floored to the millionth, so a modelled      *)
(* score is within a few millionths of the float the source computes.      *)
(*                                                                         *)
(* Optional values.  A Python value that may be None is modelled as a      *)
(* tuple of length 0 (None) or 1 (the value): None == <<>>, Some(x).       *)
(* Strings are TLA+ strings, so substring tests, lower-casing and          *)
(* f-string formatting are computed, not assumed.                          *)
(***************************************************************************)
EXTENDS Integers, Sequences, FiniteSets, TLC

VARIABLES
    positions_a, positions_b, chain_out,   \* calls into the value-chain model
    roles_a, roles_b, tx_out,              \* calls into the role-transaction matrix
    prof_a, prof_b, score_out,             \* calls into the dimension scorers
    profiles, top_k, skip_explanations,    \* the arguments of engine.run
    pc,                                    \* the step run has reached
    enriched, llm_cache, emb_cache,        \* extraction output and the two module caches
    scoreable_pairs, idx, pair_scores,     \* the scoring loop
    candidates, briefings, explained,      \* the ranking loop and the explanation calls
    fit_calls, cache_misses,               \* calls of embeddings.fit; encodes on demand while scoring
    llm_calls,                             \* the extraction calls made to the LLM since the cache was cleared
    progress,                              \* what run has passed to progress_callback
    call_args, call_result                 \* a call into one of the other pure functions

chainVars == <<positions_a, positions_b, chain_out>>

txVars == <<roles_a, roles_b, tx_out>>

scoreVars == <<prof_a, prof_b, score_out>>

runVars ==
    <<profiles, top_k, skip_explanations, pc, enriched, llm_cache, emb_cache,
      scoreable_pairs, idx, pair_scores, candidates, briefings, explained, fit_calls,
      cache_misses, llm_calls, progress>>

pureVars == <<call_args, call_result>>

vars == <<chainVars, txVars, scoreVars, runVars, pureVars>>

---------------------------------------------------------------------------
(* Representation helpers *)

One == 1000000

None == <<>>

Some(x) == <<x>>

Val(o) == o[1]

Range(s) == {s[i] : i \in 1..Len(s)}

Min(x, y) == IF x < y THEN x ELSE y

Max(x, y) == IF x > y THEN x ELSE y

\* x hundredths of y, y in millionths (a float product w * y with w = x/100)
Pct(x, y) == (x * y) \div 100

---------------------------------------------------------------------------
(* Layer 1 - Value Chain Map *)

VALUE_CHAINS ==
    [tokenized_securities |->
        <<"issuance", "custody", "settlement", "distribution", "compliance_audit">>,
     defi_infrastructure |->
        <<"protocol", "scaling_l1_l2", "interoperability", "wallet_access", "compliance">>,
     institutional_adoption |->
        <<"regulatory_framework", "sandbox", "pilot", "production", "scale">>,
     capital_markets |->
        <<"fund_formation", "deal_sourcing", "due_diligence", "portfolio_management", "exit">>]

\* {pos: idx for idx, pos in enumerate(positions)}: a later duplicate would win
POSITION_INDEX ==
    [chain \in DOMAIN VALUE_CHAINS |->
        [pos \in Range(VALUE_CHAINS[chain]) |->
            (CHOOSE i \in 1..Len(VALUE_CHAINS[chain]) :
                /\ VALUE_CHAINS[chain][i] = pos
                /\ \A j \in 1..Len(VALUE_CHAINS[chain]) :
                      VALUE_CHAINS[chain][j] = pos => j <= i) - 1]]

(* Layer 1b - Problem Domain Tags per Position *)

POSITION_TAGS ==
    ("tokenized_securities/issuance" :>
        {"market_structure", "regulatory_compliance", "asset_origination"})
 @@ ("tokenized_securities/custody" :>
        {"institutional_trust", "asset_safeguarding", "regulatory_compliance"})
 @@ ("tokenized_securities/settlement" :>
        {"settlement_finality", "cross_border_interop", "institutional_trust"})
 @@ ("tokenized_securities/distribution" :>
        {"market_structure", "cross_border_interop", "investor_access"})
 @@ ("tokenized_securities/compliance_audit" :>
        {"regulatory_compliance", "identity_access", "institutional_trust"})
 @@ ("defi_infrastructure/protocol" :>
        {"protocol_design", "settlement_finality", "throughput_scaling"})
 @@ ("defi_infrastructure/scaling_l1_l2" :>
        {"throughput_scaling", "settlement_finality", "institutional_trust"})
 @@ ("defi_infrastructure/interoperability" :>
        {"cross_border_interop", "settlement_finality", "protocol_design"})
 @@ ("defi_infrastructure/wallet_access" :>
        {"identity_access", "investor_access", "user_onboarding"})
 @@ ("defi_infrastructure/compliance" :>
        {"regulatory_compliance", "identity_access", "institutional_trust"})
 @@ ("institutional_adoption/regulatory_framework" :>
        {"regulatory_compliance", "market_structure", "institutional_trust"})
 @@ ("institutional_adoption/sandbox" :>
        {"regulatory_compliance", "market_validation", "institutional_trust"})
 @@ ("institutional_adoption/pilot" :>
        {"market_validation", "institutional_trust", "throughput_scaling"})
 @@ ("institutional_adoption/production" :>
        {"institutional_trust", "settlement_finality", "asset_safeguarding"})
 @@ ("institutional_adoption/scale" :>
        {"cross_border_interop", "throughput_scaling", "investor_access"})
 @@ ("capital_markets/fund_formation" :>
        {"market_structure", "regulatory_compliance", "investor_access"})
 @@ ("capital_markets/deal_sourcing" :>
        {"market_validation", "investor_access", "asset_origination"})
 @@ ("capital_markets/due_diligence" :>
        {"institutional_trust", "regulatory_compliance", "market_validation"})
 @@ ("capital_markets/portfolio_management" :>
        {"asset_safeguarding", "institutional_trust", "cross_border_interop"})
 @@ ("capital_markets/exit" :>
        {"market_structure", "investor_access", "cross_border_interop"})

\* POSITION_TAGS.get(f"{chain}/{position}", set())
position_tags(chain, position) ==
    LET key == chain \o "/" \o position
    IN  IF key \in DOMAIN POSITION_TAGS THEN POSITION_TAGS[key] ELSE {}

---------------------------------------------------------------------------
(* Value chain adjacency *)

\* mutant: one shared tag already counts as the high overlap
CrossChainScoreLoose(chain_a, pos_a, chain_b, pos_b) ==
    LET tags_a == position_tags(chain_a, pos_a)
        tags_b == position_tags(chain_b, pos_b)
        overlap == Cardinality(tags_a \cap tags_b)
    IN  IF tags_a = {} \/ tags_b = {} THEN 300000
        ELSE IF overlap >= 1 THEN 800000
        ELSE 200000

\* the score of two positions of different chains, from their tag overlap
CrossChainScore(chain_a, pos_a, chain_b, pos_b) ==
    LET tags_a == position_tags(chain_a, pos_a)
        tags_b == position_tags(chain_b, pos_b)
        overlap == Cardinality(tags_a \cap tags_b)
    IN  IF tags_a = {} \/ tags_b = {} THEN 300000
        ELSE IF overlap >= 2 THEN 800000
        ELSE IF overlap = 1 THEN 500000
        ELSE 200000

\* mutant: the index distance is taken with its sign (abs() forgotten)
SameChainScoreSigned(chain, pos_a, pos_b) ==
    IF chain \notin DOMAIN POSITION_INDEX
       \/ pos_a \notin DOMAIN POSITION_INDEX[chain]
       \/ pos_b \notin DOMAIN POSITION_INDEX[chain]
    THEN 300000
    ELSE LET distance == POSITION_INDEX[chain][pos_a] - POSITION_INDEX[chain][pos_b]
         IN  IF distance = 0 THEN 200000
             ELSE IF distance = 1 THEN One
             ELSE IF distance = 2 THEN 600000
             ELSE 300000

\* mutant: every distance of two or more scores 0.6 (the far case is lost)
SameChainScoreNoFar(chain, pos_a, pos_b) ==
    IF chain \notin DOMAIN POSITION_INDEX
       \/ pos_a \notin DOMAIN POSITION_INDEX[chain]
       \/ pos_b \notin DOMAIN POSITION_INDEX[chain]
    THEN 300000
    ELSE LET d == POSITION_INDEX[chain][pos_a] - POSITION_INDEX[chain][pos_b]
             distance == IF d < 0 THEN -d ELSE d
         IN  IF distance = 0 THEN 200000
             ELSE IF distance = 1 THEN One
             ELSE 600000

\* the score of two positions of one chain, from their index distance
SameChainScore(chain, pos_a, pos_b) ==
    IF chain \notin DOMAIN POSITION_INDEX
       \/ pos_a \notin DOMAIN POSITION_INDEX[chain]
       \/ pos_b \notin DOMAIN POSITION_INDEX[chain]
    THEN 300000
    ELSE LET d == POSITION_INDEX[chain][pos_a] - POSITION_INDEX[chain][pos_b]
             distance == IF d < 0 THEN -d ELSE d
         IN  IF distance = 0 THEN 200000
             ELSE IF distance = 1 THEN One
             ELSE IF distance = 2 THEN 600000
             ELSE 300000

value_chain_adjacency_score(chain_a, pos_a, chain_b, pos_b) ==
    IF chain_a # chain_b
    THEN CrossChainScore(chain_a, pos_a, chain_b, pos_b)
    ELSE SameChainScore(chain_a, pos_a, pos_b)

\* the inner loop of best_chain_score: for chain_b, pos_b in positions_b
RECURSIVE BestOverB(_, _, _, _)
BestOverB(pa, pbs, j, best) ==
    IF j > Len(pbs) THEN best
    ELSE LET s == value_chain_adjacency_score(pa[1], pa[2], pbs[j][1], pbs[j][2])
         IN  BestOverB(pa, pbs, j + 1, IF s > best THEN s ELSE best)

\* the outer loop of best_chain_score: for chain_a, pos_a in positions_a
RECURSIVE BestOverA(_, _, _, _)
BestOverA(pas, pbs, i, best) ==
    IF i > Len(pas) THEN best
    ELSE BestOverA(pas, pbs, i + 1, BestOverB(pas[i], pbs, 1, best))

\* mutant: positions are paired index by index instead of the full cross-product
best_chain_score_zip(pas, pbs) ==
    IF pas = <<>> \/ pbs = <<>> THEN 300000
    ELSE LET n == Min(Len(pas), Len(pbs))
             s(i) == value_chain_adjacency_score(pas[i][1], pas[i][2], pbs[i][1], pbs[i][2])
         IN  CHOOSE m \in {s(i) : i \in 1..n} : \A i \in 1..n : s(i) <= m

best_chain_score(pas, pbs) ==
    IF pas = <<>> \/ pbs = <<>> THEN 300000
    ELSE BestOverA(pas, pbs, 1, 0)

---------------------------------------------------------------------------
(* Layer 2 - Role-Transaction Compatibility Matrix *)

ROLES ==
    <<"deploying_capital", "raising_capital", "exploring_partnerships",
      "seeking_technology", "regulatory_policy", "media_content", "other">>

ROLE_TRANSACTION_MATRIX ==
    (<<"deploying_capital", "deploying_capital">> :> Some("co_investment"))
 @@ (<<"deploying_capital", "raising_capital">> :> Some("investment"))
 @@ (<<"deploying_capital", "exploring_partnerships">> :> None)
 @@ (<<"deploying_capital", "seeking_technology">> :> Some("investment"))
 @@ (<<"deploying_capital", "regulatory_policy">> :> Some("policy_dialogue"))
 @@ (<<"deploying_capital", "media_content">> :> None)
 @@ (<<"deploying_capital", "other">> :> None)
 @@ (<<"raising_capital", "deploying_capital">> :> Some("fundraising"))
 @@ (<<"raising_capital", "raising_capital">> :> None)
 @@ (<<"raising_capital", "exploring_partnerships">> :> Some("gtm_partnership"))
 @@ (<<"raising_capital", "seeking_technology">> :> Some("tech_partnership"))
 @@ (<<"raising_capital", "regulatory_policy">> :> Some("sandbox_candidacy"))
 @@ (<<"raising_capital", "media_content">> :> Some("media_exposure"))
 @@ (<<"raising_capital", "other">> :> None)
 @@ (<<"exploring_partnerships", "deploying_capital">> :> None)
 @@ (<<"exploring_partnerships", "raising_capital">> :> Some("gtm_partnership"))
 @@ (<<"exploring_partnerships", "exploring_partnerships">> :> Some("partnership"))
 @@ (<<"exploring_partnerships", "seeking_technology">> :> Some("integration"))
 @@ (<<"exploring_partnerships", "regulatory_policy">> :> Some("sandbox_participation"))
 @@ (<<"exploring_partnerships", "media_content">> :> None)
 @@ (<<"exploring_partnerships", "other">> :> None)
 @@ (<<"seeking_technology", "deploying_capital">> :> Some("investment_pitch"))
 @@ (<<"seeking_technology", "raising_capital">> :> Some("tech_evaluation"))
 @@ (<<"seeking_technology", "exploring_partnerships">> :> Some("integration"))
 @@ (<<"seeking_technology", "seeking_technology">> :> Some("technical_collaboration"))
 @@ (<<"seeking_technology", "regulatory_policy">> :> Some("sandbox_evaluation"))
 @@ (<<"seeking_technology", "media_content">> :> None)
 @@ (<<"seeking_technology", "other">> :> None)
 @@ (<<"regulatory_policy", "deploying_capital">> :> Some("policy_dialogue"))
 @@ (<<"regulatory_policy", "raising_capital">> :> Some("sandbox_candidates"))
 @@ (<<"regulatory_policy", "exploring_partnerships">> :> Some("sandbox_participation"))
 @@ (<<"regulatory_policy", "seeking_technology">> :> Some("sandbox_evaluation"))
 @@ (<<"regulatory_policy", "regulatory_policy">> :> Some("policy_coordination"))
 @@ (<<"regulatory_policy", "media_content">> :> Some("content_collaboration"))
 @@ (<<"regulatory_policy", "other">> :> None)
 @@ (<<"media_content", "deploying_capital">> :> None)
 @@ (<<"media_content", "raising_capital">> :> Some("media_exposure"))
 @@ (<<"media_content", "exploring_partnerships">> :> None)
 @@ (<<"media_content", "seeking_technology">> :> None)
 @@ (<<"media_content", "regulatory_policy">> :> Some("content_collaboration"))
 @@ (<<"media_content", "media_content">> :> Some("content_collaboration"))
 @@ (<<"media_content", "other">> :> None)
 @@ (<<"other", "deploying_capital">> :> None)
 @@ (<<"other", "raising_capital">> :> None)
 @@ (<<"other", "exploring_partnerships">> :> None)
 @@ (<<"other", "seeking_technology">> :> None)
 @@ (<<"other", "regulatory_policy">> :> None)
 @@ (<<"other", "media_content">> :> None)
 @@ (<<"other", "other">> :> None)

\* mutant: the lookup with every row of media_content read as empty
get_transaction_type_no_media_row(role_a, role_b) ==
    IF role_a # "media_content" /\ <<role_a, role_b>> \in DOMAIN ROLE_TRANSACTION_MATRIX
    THEN ROLE_TRANSACTION_MATRIX[<<role_a, role_b>>]
    ELSE None

\* mutant: an attendee with role 'other' facing an investor resolves to investment
get_transaction_type_other_mapped(role_a, role_b) ==
    IF role_a = "other" /\ role_b = "deploying_capital" THEN Some("investment")
    ELSE IF <<role_a, role_b>> \in DOMAIN ROLE_TRANSACTION_MATRIX
    THEN ROLE_TRANSACTION_MATRIX[<<role_a, role_b>>]
    ELSE None

\* ROLE_TRANSACTION_MATRIX.get((role_a, role_b))
get_transaction_type(role_a, role_b) ==
    IF <<role_a, role_b>> \in DOMAIN ROLE_TRANSACTION_MATRIX
    THEN ROLE_TRANSACTION_MATRIX[<<role_a, role_b>>]
    ELSE None

\* for ra in roles_a: for rb in roles_b: return the first entry that is not None
RECURSIVE FirstTx(_, _, _, _)
FirstTx(ras, rbs, i, j) ==
    IF i > Len(ras) THEN None
    ELSE IF j > Len(rbs) THEN FirstTx(ras, rbs, i + 1, 1)
    ELSE LET tx == get_transaction_type(ras[i], rbs[j])
         IN  IF tx # None THEN tx ELSE FirstTx(ras, rbs, i, j + 1)

\* mutant: the loops are nested the other way round (roles_b outermost)
best_transaction_type_b_outer(ras, rbs) ==
    LET RECURSIVE Scan(_, _)
        Scan(j, i) ==
            IF j > Len(rbs) THEN None
            ELSE IF i > Len(ras) THEN Scan(j + 1, 1)
            ELSE LET tx == get_transaction_type(ras[i], rbs[j])
                 IN  IF tx # None THEN tx ELSE Scan(j, i + 1)
    IN  Scan(1, 1)

best_transaction_type(ras, rbs) == FirstTx(ras, rbs, 1, 1)

---------------------------------------------------------------------------
(* Inputs of the calls into the domain model *)

MaxPositions == 2

MaxRoles == 2

SeqsUpTo(S, n) == UNION {[1..m -> S] : m \in 0..n}

\* every catalogued (chain, position) pair
CataloguedPositions ==
    {<<c, VALUE_CHAINS[c][i]>> : c \in DOMAIN VALUE_CHAINS, i \in 1..5}

\* positions the catalogue does not hold: unknown position, unknown chain
UncataloguedPositions ==
    {<<"tokenized_securities", "clearing">>, <<"real_estate", "issuance">>,
     <<"real_estate", "brokerage">>}

\* the positions position lists are drawn from
ListPositions ==
    {<<"tokenized_securities", "issuance">>, <<"tokenized_securities", "custody">>,
     <<"tokenized_securities", "distribution">>, <<"defi_infrastructure", "wallet_access">>,
     <<"defi_infrastructure", "compliance">>, <<"real_estate", "brokerage">>}

PositionLists ==
    {<<p>> : p \in CataloguedPositions \cup UncataloguedPositions}
        \cup SeqsUpTo(ListPositions, MaxPositions)

RoleLists == SeqsUpTo(Range(ROLES), MaxRoles)

NoCall == [fn |-> "none"]

ChainIdle == positions_a = <<>> /\ positions_b = <<>> /\ chain_out = NoCall

TxIdle == roles_a = <<>> /\ roles_b = <<>> /\ tx_out = NoCall

ScoreIdle == prof_a = None /\ prof_b = None /\ score_out = NoCall

PureIdle == call_args = NoCall /\ call_result = NoCall

RunIdle ==
    /\ profiles = <<>> /\ top_k = None /\ skip_explanations = TRUE /\ pc = "idle"
    /\ enriched = <<>> /\ llm_cache = <<>> /\ emb_cache = <<>>
    /\ scoreable_pairs = <<>> /\ idx = 0 /\ pair_scores = <<>>
    /\ candidates = <<>> /\ briefings = <<>> /\ explained = <<>>
    /\ fit_calls = 0 /\ cache_misses = 0
    /\ llm_calls = <<>> /\ progress = <<>>

---------------------------------------------------------------------------
(* Calls into the value-chain model *)

InitChain ==
    /\ positions_a \in PositionLists
    /\ positions_b \in PositionLists
    /\ chain_out = NoCall
    /\ TxIdle /\ ScoreIdle /\ RunIdle /\ PureIdle

CallAdjacency ==
    /\ chain_out = NoCall
    /\ Len(positions_a) = 1 /\ Len(positions_b) = 1
    /\ chain_out' =
          [fn |-> "value_chain_adjacency_score",
           score |-> value_chain_adjacency_score(
                        positions_a[1][1], positions_a[1][2],
                        positions_b[1][1], positions_b[1][2])]
    /\ UNCHANGED <<positions_a, positions_b, txVars, scoreVars, runVars, pureVars>>

CallBestChain ==
    /\ chain_out = NoCall
    /\ chain_out' =
          [fn |-> "best_chain_score", score |-> best_chain_score(positions_a, positions_b)]
    /\ UNCHANGED <<positions_a, positions_b, txVars, scoreVars, runVars, pureVars>>

NextChain == CallAdjacency \/ CallBestChain

SpecChain == InitChain /\ [][NextChain]_vars

(* Calls into the role-transaction matrix *)

InitTx ==
    /\ roles_a \in RoleLists
    /\ roles_b \in RoleLists
    /\ tx_out = NoCall
    /\ ChainIdle /\ ScoreIdle /\ RunIdle /\ PureIdle

CallGetTransactionType ==
    /\ tx_out = NoCall
    /\ Len(roles_a) = 1 /\ Len(roles_b) = 1
    /\ tx_out' = [fn |-> "get_transaction_type",
                  tx |-> get_transaction_type(roles_a[1], roles_b[1])]
    /\ UNCHANGED <<roles_a, roles_b, chainVars, scoreVars, runVars, pureVars>>

CallBestTransactionType ==
    /\ tx_out = NoCall
    /\ tx_out' = [fn |-> "best_transaction_type",
                  tx |-> best_transaction_type(roles_a, roles_b)]
    /\ UNCHANGED <<roles_a, roles_b, chainVars, scoreVars, runVars, pureVars>>

NextTx == CallGetTransactionType \/ CallBestTransactionType

SpecTx == InitTx /\ [][NextTx]_vars

---------------------------------------------------------------------------
(* Properties of the role-transaction matrix *)

\* the matrix entry of the pair at (i, j) of the two role lists
Entry(i, j) == get_transaction_type(roles_a[i], roles_b[j])

\* (i2, j2) is visited before (i, j): roles_a outermost, roles_b innermost
Earlier(i2, j2, i, j) == i2 < i \/ (i2 = i /\ j2 < j)

---------------------------------------------------------------------------
(* Properties of the value-chain model *)

Catalogued(p) == p[1] \in DOMAIN VALUE_CHAINS /\ p[2] \in Range(VALUE_CHAINS[p[1]])

\* the 1-based place of a catalogued position in its chain's fixed order
PlaceOf(p) == CHOOSE i \in 1..Len(VALUE_CHAINS[p[1]]) : VALUE_CHAINS[p[1]][i] = p[2]

AdjacencyCalled == chain_out.fn = "value_chain_adjacency_score"

\* C7: value_chain_adjacency_score is symmetric under swapping the two positions.
C7_AdjacencySymmetric ==
    AdjacencyCalled =>
        chain_out.score =
            value_chain_adjacency_score(positions_b[1][1], positions_b[1][2],
                                        positions_a[1][1], positions_a[1][2])

\* two different positions of one chain, and two of different chains, have been scored
C7_Witness ==
    /\ AdjacencyCalled
    /\ positions_a[1][1] = positions_b[1][1]
    /\ Catalogued(positions_a[1]) /\ Catalogued(positions_b[1])
    /\ PlaceOf(positions_a[1]) > PlaceOf(positions_b[1]) + 1

\* C8: within one chain the score is fixed by the index distance d: 0 gives 0.2,
\* 1 gives 1.0, 2 gives 0.6, 3 or more gives 0.3; an unknown chain or position
\* gives 0.3.
C8_SameChainByDistance ==
    (AdjacencyCalled /\ positions_a[1][1] = positions_b[1][1]) =>
        LET pa == positions_a[1]
            pb == positions_b[1]
        IN  IF Catalogued(pa) /\ Catalogued(pb)
            THEN \E d \in 0..4 :
                    /\ d = PlaceOf(pa) - PlaceOf(pb) \/ d = PlaceOf(pb) - PlaceOf(pa)
                    /\ chain_out.score =
                          CASE d = 0 -> 200000
                            [] d = 1 -> 1000000
                            [] d = 2 -> 600000
                            [] OTHER -> 300000
            ELSE chain_out.score = 300000

\* positions three places apart in one chain, first one later in the chain
C8_Witness ==
    /\ AdjacencyCalled
    /\ positions_a[1][1] = positions_b[1][1]
    /\ Catalogued(positions_a[1]) /\ Catalogued(positions_b[1])
    /\ PlaceOf(positions_a[1]) = PlaceOf(positions_b[1]) + 3
    /\ chain_out.score = 300000

\* the tags the catalogue lists for a position, none if it lists none
TagsOf(p) ==
    LET key == p[1] \o "/" \o p[2]
    IN  IF key \in DOMAIN POSITION_TAGS THEN POSITION_TAGS[key] ELSE {}

\* C9: across chains the score is 0.3 if either position has no tags, else 0.8,
\* 0.5 or 0.2 for at least two, one or no shared tag; 0.3 is returned across
\* chains exactly when a position is not catalogued.
C9_CrossChainByOverlap ==
    (AdjacencyCalled /\ positions_a[1][1] # positions_b[1][1]) =>
        LET ta == TagsOf(positions_a[1])
            tb == TagsOf(positions_b[1])
            n == Cardinality(ta \cap tb)
        IN  /\ chain_out.score =
                  IF ta = {} \/ tb = {} THEN 300000
                  ELSE IF n >= 2 THEN 800000
                  ELSE IF n = 1 THEN 500000
                  ELSE 200000
            /\ (chain_out.score = 300000) <=>
                  (~Catalogued(positions_a[1]) \/ ~Catalogued(positions_b[1]))

\* two catalogued positions of different chains that share no tag
C9_Witness ==
    /\ AdjacencyCalled
    /\ positions_a[1][1] # positions_b[1][1]
    /\ Catalogued(positions_a[1]) /\ Catalogued(positions_b[1])
    /\ TagsOf(positions_a[1]) \cap TagsOf(positions_b[1]) = {}
    /\ chain_out.score = 200000

\* the adjacency scores over the full cross-product of the two position lists
CrossScores ==
    {value_chain_adjacency_score(positions_a[i][1], positions_a[i][2],
                                 positions_b[j][1], positions_b[j][2]) :
        i \in 1..Len(positions_a), j \in 1..Len(positions_b)}

\* C10: best_chain_score is 0.3 when either list is empty and otherwise the
\* maximum adjacency score over the full cross-product of the two lists.
C10_BestChainIsMax ==
    chain_out.fn = "best_chain_score" =>
        IF positions_a = <<>> \/ positions_b = <<>>
        THEN chain_out.score = 300000
        ELSE /\ chain_out.score \in CrossScores
             /\ \A s \in CrossScores : s <= chain_out.score

\* the maximum is reached only by a pair off the diagonal of the cross-product
C10_Witness ==
    /\ chain_out.fn = "best_chain_score"
    /\ Len(positions_a) = 2 /\ Len(positions_b) = 2
    /\ \A i \in 1..2 :
          value_chain_adjacency_score(positions_a[i][1], positions_a[i][2],
                                      positions_b[i][1], positions_b[i][2])
             < chain_out.score

---------------------------------------------------------------------------
(* Strings: the str methods the source relies on, computed on TLA+ strings *)

CharAt(s, i) == SubSeq(s, i, i)

UPPER == "ABCDEFGHIJKLMNOPQRSTUVWXYZ"

LOWER == "abcdefghijklmnopqrstuvwxyz"

DIGITS == "0123456789"

IsCharOf(c, alphabet) == \E i \in 1..Len(alphabet) : CharAt(alphabet, i) = c

\* str.isspace for one character (\s of the re module)
IsSpace(c) == c = " " \/ c = "\t" \/ c = "\n"

LowerChar(c) ==
    IF IsCharOf(c, UPPER)
    THEN CharAt(LOWER, CHOOSE i \in 1..Len(UPPER) : CharAt(UPPER, i) = c)
    ELSE c

\* str.lower()
RECURSIVE Lower(_)
Lower(s) ==
    IF Len(s) = 0 THEN ""
    ELSE IF Len(s) = 1 THEN LowerChar(s)
    ELSE LET half == Len(s) \div 2
         IN  Lower(SubSeq(s, 1, half)) \o Lower(SubSeq(s, half + 1, Len(s)))

\* k in s (substring test)
Contains(s, k) ==
    \E i \in 1..(Len(s) - Len(k) + 1) : SubSeq(s, i, i + Len(k) - 1) = k

\* any(w in s for w in ws)
ContainsAny(s, ws) == \E w \in ws : Contains(s, w)

\* str.strip()
RECURSIVE Strip(_)
Strip(s) ==
    IF Len(s) = 0 THEN ""
    ELSE IF IsSpace(CharAt(s, 1)) THEN Strip(SubSeq(s, 2, Len(s)))
    ELSE IF IsSpace(CharAt(s, Len(s))) THEN Strip(SubSeq(s, 1, Len(s) - 1))
    ELSE s

\* sep.join(parts)
RECURSIVE Join(_, _)
Join(parts, sep) ==
    IF Len(parts) = 0 THEN ""
    ELSE IF Len(parts) = 1 THEN parts[1]
    ELSE parts[1] \o sep \o Join(Tail(parts), sep)

\* set(s.split()): the maximal runs of non-space characters of s
RECURSIVE SplitWords(_, _)
SplitWords(s, word) ==
    IF Len(s) = 0 THEN (IF word = "" THEN {} ELSE {word})
    ELSE IF IsSpace(CharAt(s, 1))
         THEN (IF word = "" THEN {} ELSE {word}) \cup SplitWords(SubSeq(s, 2, Len(s)), "")
         ELSE SplitWords(SubSeq(s, 2, Len(s)), word \o CharAt(s, 1))

\* re.sub(r"[^a-z0-9\s-]", "", s)
RECURSIVE DropNonSlugChars(_)
DropNonSlugChars(s) ==
    IF Len(s) = 0 THEN ""
    ELSE LET c == CharAt(s, 1)
             keep == IsCharOf(c, LOWER) \/ IsCharOf(c, DIGITS) \/ IsSpace(c) \/ c = "-"
         IN  (IF keep THEN c ELSE "") \o DropNonSlugChars(SubSeq(s, 2, Len(s)))

\* re.sub(r"[\s]+", "-", s): every maximal run of whitespace becomes one hyphen
RECURSIVE HyphenateSpaces(_, _)
HyphenateSpaces(s, in_run) ==
    IF Len(s) = 0 THEN ""
    ELSE LET c == CharAt(s, 1)
         IN  IF IsSpace(c)
             THEN (IF in_run THEN "" ELSE "-") \o HyphenateSpaces(SubSeq(s, 2, Len(s)), TRUE)
             ELSE c \o HyphenateSpaces(SubSeq(s, 2, Len(s)), FALSE)

slugify(name) == HyphenateSpaces(DropNonSlugChars(Strip(Lower(name))), FALSE)

---------------------------------------------------------------------------
(* Data contracts (models.py) *)

\* bool(x) of an optional string, and of an optional list
TruthyStr(o) == o # None /\ Val(o) # ""

TruthyList(o) == o # None /\ Val(o) # <<>>

\* x or [] for an optional list
OrEmpty(o) == IF o = None THEN <<>> ELSE Val(o)

\* f"{x}" of an optional string
Fmt(o) == IF o = None THEN "None" ELSE Val(o)

NeedsVector(primary_need, need_description, target_counterparty_type, urgency, constraints) ==
    [primary_need |-> primary_need, need_description |-> need_description,
     target_counterparty_type |-> target_counterparty_type, urgency |-> urgency,
     constraints |-> constraints]

ProvidesVector(primary_capability, capability_description, evidence, geographic_reach, audience_access) ==
    [primary_capability |-> primary_capability,
     capability_description |-> capability_description, evidence |-> evidence,
     geographic_reach |-> geographic_reach, audience_access |-> audience_access]

\* the fields a caller may leave out, at their declared defaults
ProfileDefaults ==
    [id |-> None, product |-> None, company_description |-> None,
     role_at_event |-> None, roles_at_event |-> None, looking_for |-> None,
     stated_goal |-> None, sector |-> None, stage |-> None, key_facts |-> <<>>,
     needs_vector |-> None, provides_vector |-> None, value_chain_positions |-> None]

\* the model validator run by AttendeeProfile(**raw)
normalize_fields(p) ==
    [p EXCEPT
        !.id = IF ~TruthyStr(p.id) THEN Some(slugify(p.name)) ELSE p.id,
        !.stated_goal =
            IF ~TruthyStr(p.stated_goal) /\ TruthyStr(p.looking_for) THEN p.looking_for
            ELSE IF ~TruthyStr(p.stated_goal) THEN Some("")
            ELSE p.stated_goal,
        !.company_description =
            IF ~TruthyStr(p.company_description) /\ TruthyStr(p.product) THEN p.product
            ELSE p.company_description,
        !.roles_at_event =
            IF p.roles_at_event = None /\ p.role_at_event # None
            THEN Some(<<Val(p.role_at_event)>>)
            ELSE p.roles_at_event]

\* AttendeeProfile(**raw): the given fields over the defaults, then the validator
AttendeeProfile(raw) == normalize_fields(raw @@ ProfileDefaults)

---------------------------------------------------------------------------
(* Layer 3 - Stage Compatibility Rules *)

STAGE_RULES ==
    [investment |->
        (<<"sovereign_fund", "series_b">> :> 900000)
     @@ (<<"sovereign_fund", "pre_product">> :> 100000)
     @@ (<<"growth_vc", "series_b">> :> 950000)
     @@ (<<"growth_vc", "seed">> :> 300000)
     @@ (<<"seed_fund", "seed">> :> 900000)
     @@ (<<"seed_fund", "series_b">> :> 400000),
     fundraising |->
        (<<"series_b", "sovereign_fund">> :> 900000)
     @@ (<<"series_b", "growth_vc">> :> 950000)
     @@ (<<"seed", "seed_fund">> :> 900000)
     @@ (<<"seed", "growth_vc">> :> 300000),
     co_investment |->
        (<<"sovereign_fund", "growth_vc">> :> 800000)
     @@ (<<"growth_vc", "sovereign_fund">> :> 800000)
     @@ (<<"growth_vc", "growth_vc">> :> 700000),
     regulatory |->
        (<<"central_bank", "growth_startup">> :> 800000)
     @@ (<<"central_bank", "pre_product">> :> 400000),
     partnership |->
        (<<"growth_startup", "growth_startup">> :> 700000)]

\* mutant: an unlisted pair of stages scores 0 instead of the neutral 0.5
stage_compatibility_zero_default(tx_type, stage_a, stage_b) ==
    IF ~TruthyStr(stage_a) \/ ~TruthyStr(stage_b) THEN 500000
    ELSE IF tx_type \notin DOMAIN STAGE_RULES THEN 500000
    ELSE IF <<Val(stage_a), Val(stage_b)>> \notin DOMAIN STAGE_RULES[tx_type] THEN 0
    ELSE STAGE_RULES[tx_type][<<Val(stage_a), Val(stage_b)>>]

stage_compatibility(tx_type, stage_a, stage_b) ==
    IF ~TruthyStr(stage_a) \/ ~TruthyStr(stage_b) THEN 500000
    ELSE IF tx_type \notin DOMAIN STAGE_RULES THEN 500000
    ELSE IF <<Val(stage_a), Val(stage_b)>> \notin DOMAIN STAGE_RULES[tx_type] THEN 500000
    ELSE STAGE_RULES[tx_type][<<Val(stage_a), Val(stage_b)>>]

---------------------------------------------------------------------------
(* Deterministic inference helpers *)

\* the keyword table in its dict (insertion) order
TITLE_SENIORITY ==
    << <<"ceo", 950000>>, <<"cfo", 900000>>, <<"cto", 850000>>, <<"coo", 850000>>,
       <<"cio", 850000>>, <<"founder", 900000>>, <<"co-founder", 900000>>,
       <<"president", 900000>>, <<"managing director", 850000>>,
       <<"general partner", 900000>>, <<"partner", 800000>>, <<"director", 750000>>,
       <<"head", 750000>>, <<"vp", 700000>>, <<"vice president", 700000>>,
       <<"senior", 600000>>, <<"manager", 500000>>, <<"analyst", 300000>> >>

\* for keyword, score in _TITLE_SENIORITY.items(): first keyword found wins
RECURSIVE ScanSeniority(_, _)
ScanSeniority(title_lower, i) ==
    IF i > Len(TITLE_SENIORITY) THEN 500000
    ELSE IF Contains(title_lower, TITLE_SENIORITY[i][1]) THEN TITLE_SENIORITY[i][2]
    ELSE ScanSeniority(title_lower, i + 1)

\* the scan without the lower-casing of the title
infer_mandate_score_no_lower(title) == ScanSeniority(title, 1)

infer_mandate_score(title) == ScanSeniority(Lower(title), 1)

MATURITY_SIGNALS == <<"live", "customer", "deploy", "production", "bank", "partner">>

infer_maturity_score(key_facts, stage) ==
    LET stage_l == Lower(Val(stage))
        stage_adj ==
            IF ~TruthyStr(stage) THEN 0
            ELSE IF ContainsAny(stage_l, {"series_b", "series_c", "growth", "scale"}) THEN 200000
            ELSE IF ContainsAny(stage_l, {"series_a", "seed"}) THEN 100000
            ELSE IF Contains(stage_l, "pre") THEN -100000
            ELSE 0
        joined == Lower(Join(key_facts, " "))
        hits == Cardinality({i \in 1..Len(MATURITY_SIGNALS) :
                                Contains(joined, MATURITY_SIGNALS[i])})
        facts_adj == IF key_facts = <<>> THEN 0 ELSE Min(hits * 50000, 200000)
    IN  Min(Max(500000 + stage_adj + facts_adj, 0), One)

infer_capability(title, company_desc) ==
    LET text == Lower(IF TruthyStr(company_desc)
                      THEN title \o " " \o Val(company_desc) ELSE title)
    IN  IF ContainsAny(text, {"fund", "invest", "capital", "wealth", "allocat"})
        THEN "capital_deployment"
        ELSE IF ContainsAny(text, {"custod", "settlement", "clearing"})
        THEN "custody_settlement"
        ELSE IF ContainsAny(text, {"l2", "layer", "scaling", "protocol", "infrastructure"})
        THEN "blockchain_infrastructure"
        ELSE IF ContainsAny(text, {"regulat", "policy", "compliance", "central bank", "cbdc"})
        THEN "regulatory_framework"
        ELSE IF ContainsAny(text, {"venture", "vc", "gp", "general partner"})
        THEN "venture_investment"
        ELSE "technology_services"

infer_audience(title, company_desc) ==
    LET text == Lower(title \o " " \o (IF TruthyStr(company_desc) THEN Val(company_desc) ELSE ""))
        audiences ==
            (IF ContainsAny(text, {"bank", "institution", "sovereign"})
             THEN <<"institutional_investors">> ELSE <<>>)
         \o (IF ContainsAny(text, {"startup", "founder", "ceo"}) THEN <<"startups">> ELSE <<>>)
         \o (IF ContainsAny(text, {"regulat", "policy", "government"})
             THEN <<"regulators">> ELSE <<>>)
    IN  IF audiences = <<>> THEN <<"general">> ELSE audiences

infer_geographic_reach(company_desc) ==
    IF ~TruthyStr(company_desc) THEN <<"global">>
    ELSE LET text == Lower(Val(company_desc))
             regions ==
                 (IF ContainsAny(text, {"europe", "eu", "mica", "german", "french"})
                  THEN <<"europe">> ELSE <<>>)
              \o (IF ContainsAny(text, {"middle east", "abu dhabi", "dubai", "saudi"})
                  THEN <<"middle_east">> ELSE <<>>)
              \o (IF ContainsAny(text, {"asia", "apac", "singapore", "japan", "korea"})
                  THEN <<"apac">> ELSE <<>>)
              \o (IF ContainsAny(text, {"us", "america", "new york"})
                  THEN <<"north_america">> ELSE <<>>)
         IN  IF regions = <<>> THEN <<"global">> ELSE regions


---------------------------------------------------------------------------
(* Problem-domain tags shared by two position lists *)

\* the union of the tags of the positions of one side
SideTags(positions) ==
    UNION {position_tags(positions[i][1], positions[i][2]) : i \in 1..Len(positions)}

shared_problem_domains(pas, pbs) == SideTags(pas) \cap SideTags(pbs)

\* len(shared) / len(union), rounded down to a millionth; then the cross-sector boost
non_obvious_tag_score(pas, pbs, sector_a, sector_b) ==
    LET shared == shared_problem_domains(pas, pbs)
        union == SideTags(pas) \cup SideTags(pbs)
        jaccard == IF union # {} THEN (Cardinality(shared) * One) \div Cardinality(union)
                   ELSE 0
        different_sectors == sector_a # None /\ sector_b # None /\ sector_a # sector_b
    IN  IF shared = {} THEN 0
        ELSE IF different_sectors THEN Min(Pct(150, jaccard), One)
        ELSE jaccard

---------------------------------------------------------------------------
(* Configuration (config.py): weights in hundredths, thresholds in millionths *)

DimensionWeights == [complementarity |-> 50, transaction_readiness |-> 30, non_obvious |-> 20]

ComplementarityWeights ==
    [needs_provides_alignment |-> 50, value_chain_adjacency |-> 30,
     bidirectional_multiplier |-> 20]

bidirectional_threshold == 300000

bidirectional_boost == 130

settings_top_k == 4

---------------------------------------------------------------------------
(* Dimension 1: Complementarity *)

needs_provides_text(profile, vector_type) ==
    IF vector_type = "needs" /\ profile.needs_vector # None
    THEN LET nv == Val(profile.needs_vector)
         IN  nv.primary_need \o ". " \o nv.need_description
                \o " Looking for: " \o nv.target_counterparty_type
                \o ". Constraints: "
                \o (IF nv.constraints # <<>> THEN Join(nv.constraints, ", ") ELSE "none")
                \o "."
    ELSE IF vector_type = "provides" /\ profile.provides_vector # None
    THEN LET pv == Val(profile.provides_vector)
         IN  pv.primary_capability \o ". " \o pv.capability_description
                \o " Evidence: "
                \o (IF pv.evidence # <<>> THEN Join(pv.evidence, ", ") ELSE "none")
                \o ". Reach: "
                \o (IF pv.geographic_reach # <<>> THEN Join(pv.geographic_reach, ", ")
                    ELSE "global")
                \o "."
    ELSE profile.title \o " at " \o profile.company \o ". " \o Fmt(profile.stated_goal)

\* mutant: the weighted sum is returned without the clamp to [0, 1]
complementarity_from_unclamped(a, b, ab_alignment, ba_alignment) ==
    LET weights == ComplementarityWeights
        avg_alignment == (ab_alignment + ba_alignment) \div 2
        chain_score == best_chain_score(OrEmpty(a.value_chain_positions),
                                        OrEmpty(b.value_chain_positions))
        bidir_raw ==
            IF ab_alignment > bidirectional_threshold /\ ba_alignment > bidirectional_threshold
            THEN Min(Pct(bidirectional_boost, avg_alignment), One)
            ELSE avg_alignment
    IN  Pct(weights.needs_provides_alignment, avg_alignment)
           + Pct(weights.value_chain_adjacency, chain_score)
           + Pct(weights.bidirectional_multiplier, bidir_raw)

\* complementarity.score from the two cosine similarities on: the alignment
\* average, the chain score, the bidirectional term, the weighted sum, the clamp
complementarity_from(a, b, ab_alignment, ba_alignment) ==
    LET weights == ComplementarityWeights
        avg_alignment == (ab_alignment + ba_alignment) \div 2
        chain_score == best_chain_score(OrEmpty(a.value_chain_positions),
                                        OrEmpty(b.value_chain_positions))
        bidir_raw ==
            IF ab_alignment > bidirectional_threshold /\ ba_alignment > bidirectional_threshold
            THEN Min(Pct(bidirectional_boost, avg_alignment), One)
            ELSE avg_alignment
        composite ==
            Pct(weights.needs_provides_alignment, avg_alignment)
               + Pct(weights.value_chain_adjacency, chain_score)
               + Pct(weights.bidirectional_multiplier, bidir_raw)
    IN  Min(Max(composite, 0), One)

---------------------------------------------------------------------------
(* Dimension 2: Transaction-Readiness *)

TR_WEIGHTS_INVEST == [mandate |-> 30, fit |-> 30, maturity |-> 25, alignment |-> 15]

TR_WEIGHTS_PARTNER == [mandate |-> 20, fit |-> 25, maturity |-> 30, alignment |-> 25]

TR_WEIGHTS_POLICY == [mandate |-> 30, fit |-> 20, maturity |-> 25, alignment |-> 25]

TR_WEIGHTS ==
    [investment |-> TR_WEIGHTS_INVEST, fundraising |-> TR_WEIGHTS_INVEST,
     co_investment |-> TR_WEIGHTS_INVEST, partnership |-> TR_WEIGHTS_PARTNER,
     gtm_partnership |-> TR_WEIGHTS_PARTNER, tech_partnership |-> TR_WEIGHTS_PARTNER,
     integration |-> TR_WEIGHTS_PARTNER, technical_collaboration |-> TR_WEIGHTS_PARTNER,
     policy_dialogue |-> TR_WEIGHTS_POLICY, sandbox_candidacy |-> TR_WEIGHTS_POLICY,
     sandbox_candidates |-> TR_WEIGHTS_POLICY, sandbox_evaluation |-> TR_WEIGHTS_POLICY,
     sandbox_participation |-> TR_WEIGHTS_POLICY, policy_coordination |-> TR_WEIGHTS_POLICY,
     media_exposure |-> TR_WEIGHTS_PARTNER, content_collaboration |-> TR_WEIGHTS_PARTNER,
     investment_pitch |-> TR_WEIGHTS_INVEST, tech_evaluation |-> TR_WEIGHTS_PARTNER]

TR_DEFAULT_WEIGHTS == [mandate |-> 25, fit |-> 25, maturity |-> 25, alignment |-> 25]

score_mandate(a, b) ==
    LET a_authority == infer_mandate_score(a.title)
        b_authority == infer_mandate_score(b.title)
        a_urgency_bonus ==
            IF a.needs_vector # None /\ Val(a.needs_vector).urgency = "active" THEN 100000
            ELSE IF a.needs_vector # None /\ Val(a.needs_vector).urgency = "exploring"
                 THEN 50000
            ELSE 0
    IN  Min((a_authority + b_authority) \div 2 + a_urgency_bonus, One)

score_fit(a, b) ==
    LET overlap ==
            Cardinality(
                SplitWords(Lower(Val(a.needs_vector).target_counterparty_type), "")
                \cap SplitWords(Lower(Val(b.provides_vector).primary_capability), ""))
        words_bonus ==
            IF a.needs_vector # None /\ b.provides_vector # None
            THEN (IF overlap >= 2 THEN 300000 ELSE IF overlap >= 1 THEN 150000 ELSE 0)
            ELSE 0
        sector_bonus ==
            IF TruthyStr(a.sector) /\ TruthyStr(b.sector) /\ a.sector = b.sector THEN 150000
            ELSE IF TruthyStr(a.sector) /\ TruthyStr(b.sector) THEN 50000
            ELSE 0
    IN  Min(500000 + words_bonus + sector_bonus, One)

score_alignment(a, b) ==
    LET sector_bonus ==
            IF TruthyStr(a.sector) /\ TruthyStr(b.sector) /\ a.sector = b.sector THEN 200000
            ELSE 0
        geo_overlap == Range(Val(a.provides_vector).geographic_reach)
                          \cap Range(Val(b.provides_vector).geographic_reach)
        geo_bonus ==
            IF a.provides_vector # None /\ b.provides_vector # None
            THEN (IF geo_overlap # {} /\ "global" \notin geo_overlap THEN 200000
                  ELSE IF geo_overlap # {} THEN 100000
                  ELSE 0)
            ELSE 0
    IN  Min(400000 + sector_bonus + geo_bonus, One)

\* p.roles_at_event or ([p.role_at_event] if p.role_at_event else ["other"])
RolesOrOther(p) ==
    IF TruthyList(p.roles_at_event) THEN Val(p.roles_at_event)
    ELSE IF TruthyStr(p.role_at_event) THEN <<Val(p.role_at_event)>>
    ELSE <<"other">>

\* the blended, clamped score of a pair whose transaction type is tx_type
ReadinessOf(a, b, tx_type) ==
    LET mandate == score_mandate(a, b)
        fit == score_fit(a, b)
        maturity == (infer_maturity_score(a.key_facts, a.stage)
                        + infer_maturity_score(b.key_facts, b.stage)) \div 2
        alignment == score_alignment(a, b)
        weights == IF tx_type \in DOMAIN TR_WEIGHTS THEN TR_WEIGHTS[tx_type]
                   ELSE TR_DEFAULT_WEIGHTS
        rule_score == Pct(weights.mandate, mandate) + Pct(weights.fit, fit)
                         + Pct(weights.maturity, maturity)
                         + Pct(weights.alignment, alignment)
        stage_score == stage_compatibility(tx_type, a.stage, b.stage)
        blended == Pct(70, rule_score) + Pct(30, stage_score)
    IN  Min(Max(blended, 0), One)

\* mutant: the early return is missing, an unresolved pair is scored all the same
transaction_readiness_no_short_circuit(a, b) ==
    LET tx_type == best_transaction_type(RolesOrOther(a), RolesOrOther(b))
    IN  IF tx_type = None THEN <<ReadinessOf(a, b, "none"), None>>
        ELSE <<ReadinessOf(a, b, Val(tx_type)), tx_type>>

\* transaction_readiness.score: (score, transaction_type)
transaction_readiness_score(a, b) ==
    LET tx_type == best_transaction_type(RolesOrOther(a), RolesOrOther(b))
    IN  IF tx_type = None THEN <<0, None>>
        ELSE <<ReadinessOf(a, b, Val(tx_type)), tx_type>>

---------------------------------------------------------------------------
(* Dimension 3: Non-Obvious Connection *)

TAG_WEIGHT == 80

EMBED_WEIGHT == 20

problem_domain_text(profile) ==
    LET parts ==
            (IF TruthyStr(profile.company_description)
             THEN <<Val(profile.company_description)>> ELSE <<>>)
         \o (IF profile.needs_vector # None
             THEN <<"Key challenges: " \o Val(profile.needs_vector).primary_need \o ".">>
             ELSE <<>>)
         \o (IF profile.provides_vector # None
             THEN <<"Building toward: " \o Val(profile.provides_vector).primary_capability
                        \o ".">>
             ELSE <<>>)
    IN  IF parts = <<>>
        THEN profile.title \o " at " \o profile.company \o ". " \o Fmt(profile.stated_goal)
        ELSE Join(parts, " ")

\* non_obvious.score from the cosine similarity of the two problem-domain texts on
non_obvious_from(a, b, embed_sim) ==
    LET tag_score == non_obvious_tag_score(OrEmpty(a.value_chain_positions),
                                           OrEmpty(b.value_chain_positions),
                                           a.sector, b.sector)
        combined == Pct(TAG_WEIGHT, tag_score) + Pct(EMBED_WEIGHT, embed_sim)
    IN  Min(Max(combined, 0), One)

---------------------------------------------------------------------------
(* Composite ranker *)

DimensionScores(c, t, n) == [complementarity |-> c, transaction_readiness |-> t, non_obvious |-> n]

\* mutant: the non-obvious score is added unweighted
composite_unweighted_tail(w, scores) ==
    Pct(w.complementarity, scores.complementarity)
       + Pct(w.transaction_readiness, scores.transaction_readiness)
       + scores.non_obvious

\* mutant: the transaction-readiness term is subtracted
composite_minus_readiness(w, scores) ==
    Pct(w.complementarity, scores.complementarity)
       - Pct(w.transaction_readiness, scores.transaction_readiness)
       + Pct(w.non_obvious, scores.non_obvious)

\* the weighted sum of composite_score, w being settings.dimension_weights
composite_with(w, scores) ==
    Pct(w.complementarity, scores.complementarity)
       + Pct(w.transaction_readiness, scores.transaction_readiness)
       + Pct(w.non_obvious, scores.non_obvious)

\* composite_score under the default settings
composite_score(scores) == composite_with(DimensionWeights, scores)


---------------------------------------------------------------------------
(* Inputs of the calls into the dimension scorers *)

\* who the attendee is: title, roles, stage, key facts
Identities ==
    {[name |-> "Ann Lee", title |-> "General Partner", company |-> "Alpha Capital",
      roles_at_event |-> Some(<<"deploying_capital">>), stage |-> Some("growth_vc"),
      key_facts |-> <<"Live fund with 40 bank partners",
                      "Portfolio customers deployed in production">>],
     [name |-> "Bo Chen", title |-> "Founder & CEO", company |-> "Beta Labs",
      role_at_event |-> Some("raising_capital"), stage |-> Some("series_b"),
      key_facts |-> <<"12 customers live">>],
     [name |-> "Cy Diaz", title |-> "Research Analyst", company |-> "Gamma Media",
      roles_at_event |-> Some(<<"other", "media_content">>), stage |-> Some("pre_product")],
     [name |-> "Di Evans", title |-> "Engineer", company |-> "Delta Systems"],
     [name |-> "Ed Fox", title |-> "Advisor", company |-> "Epsilon Partners",
      roles_at_event |-> Some(<<>>), stage |-> Some("seed")]}

Sectors == {None, Some(""), Some("defi"), Some("tradfi")}

\* what extraction has added to the profile, if anything
Enrichments ==
    {[needs_vector |-> None],
     [needs_vector |-> Some(NeedsVector("growth capital", "Raising a growth round.",
                                        "growth capital partner", "active",
                                        <<"institutional only">>)),
      provides_vector |-> Some(ProvidesVector("growth capital", "Deploys growth capital.",
                                              <<"40 portfolio companies">>,
                                              <<"europe", "global">>, <<"startups">>)),
      value_chain_positions |-> Some(<<<<"tokenized_securities", "issuance">>>>)],
     [needs_vector |-> Some(NeedsVector("custody", "", "", "passive", <<>>)),
      provides_vector |-> Some(ProvidesVector("custody technology", "", <<>>,
                                              <<"europe">>, <<>>)),
      value_chain_positions |-> Some(<<<<"tokenized_securities", "custody">>,
                                       <<"defi_infrastructure", "compliance">>>>)],
     [needs_vector |-> Some(NeedsVector("distribution", "", "capital", "exploring", <<>>)),
      provides_vector |-> Some(ProvidesVector("wallet capital", "", <<>>,
                                              <<"global">>, <<>>)),
      value_chain_positions |-> Some(<<<<"defi_infrastructure", "wallet_access">>,
                                       <<"real_estate", "brokerage">>>>)]}

ScoreProfiles ==
    {AttendeeProfile(e @@ [sector |-> s] @@ i) :
        i \in Identities, s \in Sectors, e \in Enrichments}

\* the cosine similarities the embedding collaborator may return
CosGrid == {-1000000, 0, 300000, 400000, 1000000}

---------------------------------------------------------------------------
(* Calls into the dimension scorers *)

InitScore ==
    /\ prof_a \in ScoreProfiles
    /\ prof_b \in ScoreProfiles
    /\ score_out = NoCall
    /\ ChainIdle /\ TxIdle /\ RunIdle /\ PureIdle

CallComplementarity ==
    /\ score_out = NoCall
    /\ \E ab \in CosGrid, ba \in CosGrid :
          score_out' = [fn |-> "complementarity", ab |-> ab, ba |-> ba,
                        score |-> complementarity_from(prof_a, prof_b, ab, ba)]
    /\ UNCHANGED <<prof_a, prof_b, chainVars, txVars, runVars, pureVars>>

CallTransactionReadiness ==
    /\ score_out = NoCall
    /\ LET r == transaction_readiness_score(prof_a, prof_b)
       IN  score_out' = [fn |-> "transaction_readiness", score |-> r[1], tx |-> r[2]]
    /\ UNCHANGED <<prof_a, prof_b, chainVars, txVars, runVars, pureVars>>

CallNonObvious ==
    /\ score_out = NoCall
    /\ \E embed_sim \in CosGrid :
          score_out' = [fn |-> "non_obvious", embed_sim |-> embed_sim,
                        score |-> non_obvious_from(prof_a, prof_b, embed_sim)]
    /\ UNCHANGED <<prof_a, prof_b, chainVars, txVars, runVars, pureVars>>

\* exceptions the encoder may raise on a get_embedding miss: one from the tensor
\* library at encode time, one from loading the model files
EncodeErrors == {"RuntimeError", "OSError"}

\* complementarity.score when an embedding it asks for cannot be encoded: the
\* four get_embedding calls stand outside any try block
CallComplementarityEncodeFails ==
    /\ score_out = NoCall
    /\ \E error \in EncodeErrors :
          score_out' = [fn |-> "raised", by |-> "complementarity", error |-> error]
    /\ UNCHANGED <<prof_a, prof_b, chainVars, txVars, runVars, pureVars>>

\* non_obvious.score when an embedding it asks for cannot be encoded: a
\* RuntimeError is caught and embed_sim set to 0.0, anything else leaves the call
CallNonObviousEncodeFails ==
    /\ score_out = NoCall
    /\ \E error \in EncodeErrors :
          score_out' =
              IF error = "RuntimeError"
              THEN [fn |-> "non_obvious", embed_sim |-> 0, degraded |-> TRUE,
                    score |-> non_obvious_from(prof_a, prof_b, 0)]
              ELSE [fn |-> "raised", by |-> "non_obvious", error |-> error]
    /\ UNCHANGED <<prof_a, prof_b, chainVars, txVars, runVars, pureVars>>

NextScore ==
    \/ CallComplementarity
    \/ CallTransactionReadiness
    \/ CallNonObvious
    \/ CallComplementarityEncodeFails
    \/ CallNonObviousEncodeFails

SpecScore == InitScore /\ [][NextScore]_vars

---------------------------------------------------------------------------
(* Properties of the dimension scorers *)

\* C1: whatever the two profiles and whatever cosine similarities in [-1, 1] the
\* embedding collaborator returns, each of the three scorers returns a score in
\* [0, 1].
C1_ScoresInUnitInterval ==
    score_out.fn \in {"complementarity", "transaction_readiness", "non_obvious"} =>
        (0 <= score_out.score /\ score_out.score <= One)

\* a complementarity call whose weighted sum is negative, so the clamp has acted
C1_Witness ==
    /\ score_out.fn = "complementarity"
    /\ score_out.ab = -1000000 /\ score_out.ba = -1000000
    /\ score_out.score = 0

\* the matrix entries of all role combinations of the two profiles
RoleCombinations ==
    {get_transaction_type(ra, rb) :
        ra \in Range(RolesOrOther(prof_a)), rb \in Range(RolesOrOther(prof_b))}

\* C5: transaction_readiness.score returns (0.0, None) when no role combination
\* maps to a transaction type and otherwise a mapped type with a score above 0,
\* so the score is 0 exactly when the type is None.
C5_ZeroIffNoTransaction ==
    score_out.fn = "transaction_readiness" =>
        /\ (RoleCombinations \subseteq {None}) => (score_out.score = 0 /\ score_out.tx = None)
        /\ ~(RoleCombinations \subseteq {None}) =>
              (score_out.tx # None /\ score_out.tx \in RoleCombinations
                  /\ score_out.score > 0)
        /\ (score_out.score = 0) <=> (score_out.tx = None)

\* a resolved pair has been scored, one side holding several roles
C5_Witness ==
    /\ score_out.fn = "transaction_readiness"
    /\ score_out.tx # None /\ score_out.score > 0
    /\ Len(RolesOrOther(prof_a)) > 1


---------------------------------------------------------------------------
(* Embeddings (embeddings.py) *)

\* A deterministic stand-in for SentenceTransformer.encode with
\* normalize_embeddings=True: a text is mapped to a direction read off its
\* vocabulary.  Vectors are pairs of integers in fifths, so every non-zero one
\* has norm 1 and every cosine is an exact multiple of 0.04.  All that the
\* scorers rely on is kept: the same text always yields the same vector.
encode(text) ==
    LET t == Lower(text)
        capital == Contains(t, "capital")
        custody == Contains(t, "custod")
    IN  IF capital /\ custody THEN <<3, 4>>
        ELSE IF capital THEN <<5, 0>>
        ELSE IF custody THEN <<0, 5>>
        ELSE IF Contains(t, "media") THEN <<-5, 0>>
        ELSE <<4, 3>>

\* np.linalg.norm of a vector in fifths; the modelled vectors have whole norms
NormOf(v) == CHOOSE r \in 0..10 : r * r = v[1] * v[1] + v[2] * v[2]

cosine_similarity(a, b) ==
    LET dot == a[1] * b[1] + a[2] * b[2]
        norm == NormOf(a) * NormOf(b)
    IN  IF norm = 0 THEN 0 ELSE (dot * One) \div norm

\* fit(texts): the cache is cleared, then holds one vector per text of the corpus
fit(texts) == [t \in Range(texts) |-> encode(t)]

\* get_embedding(text): the cached vector, else a fresh encoding
get_embedding(cache, text) == IF text \in DOMAIN cache THEN cache[text] ELSE encode(text)

\* the cache after get_embedding has been called for each text in turn
RECURSIVE CacheAfter(_, _)
CacheAfter(cache, texts) ==
    IF texts = <<>> THEN cache
    ELSE CacheAfter(IF Head(texts) \in DOMAIN cache THEN cache
                    ELSE (Head(texts) :> encode(Head(texts))) @@ cache,
                    Tail(texts))

\* how many get_embedding calls for the texts, made in turn, find no cached vector
MissCount(cache, texts) == Cardinality(DOMAIN CacheAfter(cache, texts) \ DOMAIN cache)

\* the texts complementarity.score and then non_obvious.score ask embeddings for
TextsRequested(a, b) ==
    <<needs_provides_text(a, "needs"), needs_provides_text(b, "provides"),
      needs_provides_text(a, "provides"), needs_provides_text(b, "needs"),
      problem_domain_text(a), problem_domain_text(b)>>

complementarity_score(a, b, cache) ==
    LET a_needs_emb == get_embedding(cache, needs_provides_text(a, "needs"))
        b_provides_emb == get_embedding(cache, needs_provides_text(b, "provides"))
        a_provides_emb == get_embedding(cache, needs_provides_text(a, "provides"))
        b_needs_emb == get_embedding(cache, needs_provides_text(b, "needs"))
    IN  complementarity_from(a, b, cosine_similarity(a_needs_emb, b_provides_emb),
                             cosine_similarity(b_needs_emb, a_provides_emb))

non_obvious_score(a, b, cache) ==
    non_obvious_from(a, b, cosine_similarity(get_embedding(cache, problem_domain_text(a)),
                                             get_embedding(cache, problem_domain_text(b))))

---------------------------------------------------------------------------
(* Consolidated extraction (extraction/intent_extractor.py) *)

\* d.get(k, default) of a JSON object, modelled as a function on its keys
DictGet(d, k, default) == IF k \in DOMAIN d THEN d[k] ELSE default

EmptyDict == <<>>

\* a cache key built from the name alone
profile_hash_name_only(profile) == profile.name

\* the cache key: the formatted five fields.  The source keeps the first 16 hex
\* digits of their SHA-256, taken here to be free of collisions.
profile_hash(profile) ==
    profile.name \o "|" \o profile.title \o "|" \o profile.company \o "|"
        \o Fmt(profile.product) \o "|" \o Fmt(profile.stated_goal)

fallback_provides(profile) ==
    ProvidesVector(
        infer_capability(profile.title, profile.company_description),
        IF TruthyStr(profile.company_description) THEN Val(profile.company_description)
        ELSE profile.title \o " at " \o profile.company,
        SubSeq(profile.key_facts, 1, Min(3, Len(profile.key_facts))),
        infer_geographic_reach(profile.company_description),
        infer_audience(profile.title, profile.company_description))

parse_needs(data) ==
    NeedsVector(DictGet(data, "primary_need", ""), DictGet(data, "need_description", ""),
                DictGet(data, "target_counterparty_type", ""),
                DictGet(data, "urgency", "exploring"), DictGet(data, "constraints", <<>>))

parse_provides(data) ==
    ProvidesVector(DictGet(data, "primary_capability", ""),
                   DictGet(data, "capability_description", ""),
                   DictGet(data, "evidence", <<>>), DictGet(data, "geographic_reach", <<>>),
                   DictGet(data, "audience_access", <<>>))

VALID_ROLES == Range(ROLES)

VALID_POSITIONS == [chain \in DOMAIN VALUE_CHAINS |-> Range(VALUE_CHAINS[chain])]

IsValidPosition(item) ==
    Len(item) = 2 /\ item[1] \in DOMAIN VALID_POSITIONS /\ item[2] \in VALID_POSITIONS[item[1]]

apply_extraction(profile, data) ==
    LET needs_data == DictGet(data, "needs", EmptyDict)
        goal_text == IF TruthyStr(profile.stated_goal) THEN Val(profile.stated_goal)
                     ELSE profile.title
        needs ==
            IF needs_data # EmptyDict /\ DictGet(needs_data, "primary_need", "") # ""
            THEN parse_needs(needs_data)
            ELSE NeedsVector(goal_text, goal_text, "", "exploring", <<>>)
        provides_data == DictGet(data, "provides", EmptyDict)
        provides ==
            IF provides_data # EmptyDict /\ DictGet(provides_data, "primary_capability", "") # ""
            THEN parse_provides(provides_data)
            ELSE fallback_provides(profile)
        raw_roles == DictGet(data, "roles_at_event", <<>>)
        listed == SelectSeq(raw_roles, LAMBDA r : r \in VALID_ROLES)
        roles == IF listed # <<>> THEN listed
                 ELSE IF OrEmpty(profile.roles_at_event) # <<>> THEN Val(profile.roles_at_event)
                 ELSE <<"other">>
        positions == SelectSeq(DictGet(data, "value_chain_positions", <<>>), IsValidPosition)
    IN  [profile EXCEPT
            !.needs_vector = Some(needs),
            !.provides_vector = Some(provides),
            !.roles_at_event = Some(roles),
            !.value_chain_positions = IF positions # <<>> THEN Some(positions) ELSE None]

\* the caller's object written over with the enriched fields
argument_updated_in_place(profile, data) == apply_extraction(profile, data)

\* the object _apply_extraction was given, as it stands after the call: every
\* value is built fresh (roles by list(...), positions in a new list) and
\* model_copy returns a new object, so no attribute of the argument is assigned
argument_after_apply_extraction(profile, data) == profile


---------------------------------------------------------------------------
(* Explanations (explanation/generator.py) *)

DimensionExplanations(complementarity, transaction_readiness, non_obvious) ==
    [complementarity |-> complementarity, transaction_readiness |-> transaction_readiness,
     non_obvious |-> non_obvious]

\* generate_explanation, given the JSON object call_llm_json returned
generate_explanation(data, other) ==
    LET explanation == DictGet(data, "explanation", "")
        dim_explanations ==
            DimensionExplanations(DictGet(data, "complementarity", ""),
                                  DictGet(data, "transaction_readiness", ""),
                                  DictGet(data, "non_obvious", ""))
    IN  <<IF explanation = ""
          THEN other.name \o " (" \o other.company
                   \o ") may be relevant to your goals at this event."
          ELSE explanation,
          dim_explanations>>

---------------------------------------------------------------------------
(* Pipeline orchestrator (engine.py) *)

\* mutant: the problem-domain texts are left out of the corpus
collect_embedding_corpus_no_domain(ps) ==
    LET TextsOf(p) == <<needs_provides_text(p, "needs"), needs_provides_text(p, "provides")>>
        Collect[i \in 0..Len(ps)] == IF i = 0 THEN <<>> ELSE Collect[i - 1] \o TextsOf(ps[i])
    IN  Collect[Len(ps)]

collect_embedding_corpus(ps) ==
    LET TextsOf(p) == <<needs_provides_text(p, "needs"), needs_provides_text(p, "provides"),
                        problem_domain_text(p)>>
        Collect[i \in 0..Len(ps)] == IF i = 0 THEN <<>> ELSE Collect[i - 1] \o TextsOf(ps[i])
    IN  Collect[Len(ps)]

get_roles(p) ==
    IF TruthyList(p.roles_at_event) THEN Val(p.roles_at_event)
    ELSE IF TruthyStr(p.role_at_event) THEN <<Val(p.role_at_event)>>
    ELSE <<"other">>

ScoredPair(attendee_a_id, attendee_b_id, scores, composite, transaction_type) ==
    [attendee_a_id |-> attendee_a_id, attendee_b_id |-> attendee_b_id, scores |-> scores,
     composite |-> composite, transaction_type |-> transaction_type]

MatchResult(pair, explanation, dimension_explanations) ==
    [pair |-> pair, explanation |-> explanation,
     dimension_explanations |-> dimension_explanations]

MatchBriefing(attendee_id, attendee_name, matches) ==
    [attendee_id |-> attendee_id, attendee_name |-> attendee_name, matches |-> matches]

\* the pairs with the type resolved from b's roles to a's
CollectScoreablePairsSwappedRoles(ps) ==
    LET n == Len(ps)
        all == [k \in 1..(n * n) |-> <<((k - 1) \div n) + 1, ((k - 1) % n) + 1>>]
        kept == SelectSeq(all, LAMBDA ij : ps[ij[1]].id # ps[ij[2]].id)
    IN  [k \in 1..Len(kept) |->
            <<kept[k][1], kept[k][2],
              best_transaction_type(get_roles(ps[kept[k][2]]), get_roles(ps[kept[k][1]]))>>]

\* the nested loop over enriched x enriched: index pairs in generation order,
\* equal ids skipped, each with its transaction type
CollectScoreablePairs(ps) ==
    LET n == Len(ps)
        all == [k \in 1..(n * n) |-> <<((k - 1) \div n) + 1, ((k - 1) % n) + 1>>]
        kept == SelectSeq(all, LAMBDA ij : ps[ij[1]].id # ps[ij[2]].id)
    IN  [k \in 1..Len(kept) |->
            <<kept[k][1], kept[k][2],
              best_transaction_type(get_roles(ps[kept[k][1]]), get_roles(ps[kept[k][2]]))>>]

\* one iteration of the scoring loop: the ScoredPair of (a, b)
ScoreOnePair(a, b, tx_type, cache) ==
    LET comp == complementarity_score(a, b, cache)
        no_score == non_obvious_score(a, b, CacheAfter(cache, SubSeq(TextsRequested(a, b), 1, 4)))
        tr_score == IF tx_type = None THEN 0 ELSE transaction_readiness_score(a, b)[1]
        dim_scores == DimensionScores(comp, tr_score, no_score)
    IN  ScoredPair(Val(a.id), Val(b.id), dim_scores, composite_score(dim_scores), tx_type)

\* pair_scores[(a.id, b.id)] = sp on an insertion-ordered dict: an existing key
\* keeps its place, a new key goes last
DictPut(d, sp) ==
    IF \E i \in 1..Len(d) :
          d[i].attendee_a_id = sp.attendee_a_id /\ d[i].attendee_b_id = sp.attendee_b_id
    THEN [i \in 1..Len(d) |->
            IF d[i].attendee_a_id = sp.attendee_a_id /\ d[i].attendee_b_id = sp.attendee_b_id
            THEN sp ELSE d[i]]
    ELSE Append(d, sp)

\* list.sort(key=composite, reverse=True): descending and stable, each element
\* placed behind every element whose composite is at least its own
InsertDescending(sorted, sp) ==
    LET ahead == Cardinality({i \in 1..Len(sorted) : sorted[i].composite >= sp.composite})
    IN  SubSeq(sorted, 1, ahead) \o <<sp>> \o SubSeq(sorted, ahead + 1, Len(sorted))

\* mutant: an element is placed ahead of its equals, so ties come out reversed
InsertBeforeEqual(sorted, sp) ==
    LET ahead == Cardinality({i \in 1..Len(sorted) : sorted[i].composite > sp.composite})
    IN  SubSeq(sorted, 1, ahead) \o <<sp>> \o SubSeq(sorted, ahead + 1, Len(sorted))

\* mutant: ascending order (reverse=True forgotten)
InsertAscending(sorted, sp) ==
    LET ahead == Cardinality({i \in 1..Len(sorted) : sorted[i].composite <= sp.composite})
    IN  SubSeq(sorted, 1, ahead) \o <<sp>> \o SubSeq(sorted, ahead + 1, Len(sorted))

SortByCompositeUnstable(cands) ==
    LET Sorted[i \in 0..Len(cands)] ==
            IF i = 0 THEN <<>> ELSE InsertBeforeEqual(Sorted[i - 1], cands[i])
    IN  Sorted[Len(cands)]

SortByCompositeAscending(cands) ==
    LET Sorted[i \in 0..Len(cands)] ==
            IF i = 0 THEN <<>> ELSE InsertAscending(Sorted[i - 1], cands[i])
    IN  Sorted[Len(cands)]

SortByComposite(cands) ==
    LET Sorted[i \in 0..Len(cands)] ==
            IF i = 0 THEN <<>> ELSE InsertDescending(Sorted[i - 1], cands[i])
    IN  Sorted[Len(cands)]

\* profile_map = {p.id: p for p in enriched}: the last profile with an id wins
ProfileMap(ps, id) ==
    ps[CHOOSE i \in 1..Len(ps) :
          /\ Val(ps[i].id) = id
          /\ \A j \in (i + 1)..Len(ps) : Val(ps[j].id) # id]


---------------------------------------------------------------------------
(* engine.run as a state machine *)

MaxProfiles == 3

MaxTopK == 2

\* Attendee records as a caller would load them.  Two different people share
\* the name "Ann Lee" and carry no id; "Cy Diaz" differs from "Bo Chen" in
\* name and id only.
RawProfiles ==
    {[name |-> "Ann Lee", title |-> "General Partner", company |-> "Alpha Capital",
      roles_at_event |-> Some(<<"deploying_capital">>), stage |-> Some("growth_vc"),
      stated_goal |-> Some("Deploy capital into custody"), sector |-> Some("tradfi")],
     [name |-> "Ann Lee", title |-> "Head of Policy", company |-> "Gamma Authority",
      role_at_event |-> Some("regulatory_policy"),
      looking_for |-> Some("Media partners")],
     [id |-> Some("bo"), name |-> "Bo Chen", title |-> "Founder & CEO",
      company |-> "Beta Labs", role_at_event |-> Some("raising_capital"),
      product |-> Some("Custody platform"), stage |-> Some("series_b"),
      sector |-> Some("defi"), key_facts |-> <<"12 banks live">>],
     [id |-> Some("cy"), name |-> "Cy Diaz", title |-> "Founder & CEO",
      company |-> "Beta Labs", role_at_event |-> Some("raising_capital"),
      product |-> Some("Custody platform"), stage |-> Some("series_b"),
      sector |-> Some("defi"), key_facts |-> <<"12 banks live">>]}

RunProfiles == {AttendeeProfile(raw) : raw \in RawProfiles}

\* what call_llm_json may hand the extractor: nothing usable, or an object
\* holding entries the extractor must drop
ExtractionReplies ==
    {EmptyDict,
     [needs |-> [primary_need |-> "growth capital", urgency |-> "active"],
      provides |-> [primary_capability |-> "custody technology",
                    geographic_reach |-> <<"europe">>],
      roles_at_event |-> <<"speaker", "raising_capital", "exploring_partnerships">>,
      value_chain_positions |-> <<<<"tokenized_securities", "custody">>,
                                  <<"tokenized_securities", "mining">>,
                                  <<"defi_infrastructure", "compliance", "extra">>>>]}

\* what call_llm_json may hand the explanation generator
ExplanationReplies ==
    {EmptyDict, [explanation |-> "Their custody stack fits your mandate.",
                 complementarity |-> "Needs meet capabilities."]}

\* a JSON string where the extractor expects an object, tagged to tell it apart
JsonString(text) == [json_string |-> text]

IsJsonString(v) == "json_string" \in DOMAIN v

\* a reply that parses as JSON but has the wrong shape: "needs" is a string
MalformedReply == [needs |-> JsonString("growth capital")]

\* what the LLM call may come to: a JSON document, text that is no JSON, or a
\* failure of the API call itself
ExtractionOutcomes ==
    {[kind |-> "json", value |-> r] : r \in ExtractionReplies \cup {MalformedReply}}
        \cup {[kind |-> "not_json"], [kind |-> "api_error"]}

\* call_llm_json: only a JSONDecodeError is caught and turned into {}
call_llm_json_raises(outcome) == outcome.kind = "api_error"

call_llm_json(outcome) == IF outcome.kind = "not_json" THEN EmptyDict ELSE outcome.value

\* _apply_extraction calls .get on "needs" and "provides" once they are truthy:
\* an AttributeError when either is a string
apply_extraction_raises(data) ==
    \/ IsJsonString(DictGet(data, "needs", EmptyDict))
    \/ IsJsonString(DictGet(data, "provides", EmptyDict))

\* the five fields the cache key is built from
FiveFields(profile) ==
    <<profile.name, profile.title, profile.company, profile.product, profile.stated_goal>>

\* the record of one call of the LLM service made by extract_all
LlmCall(profile, outcome) ==
    [fields |-> FiveFields(profile),
     returned |-> ~call_llm_json_raises(outcome),
     data |-> IF call_llm_json_raises(outcome) THEN EmptyDict ELSE call_llm_json(outcome)]

\* k = top_k or settings.top_k
K == IF top_k = None \/ Val(top_k) = 0 THEN settings_top_k ELSE Val(top_k)

Init ==
    /\ profiles \in SeqsUpTo(RunProfiles, MaxProfiles) \ {<<>>}
    /\ top_k \in {None} \cup {Some(k) : k \in 1..MaxTopK}
    /\ skip_explanations \in BOOLEAN
    /\ pc = "extract"
    /\ enriched = <<>> /\ llm_cache = <<>> /\ emb_cache = <<>>
    /\ scoreable_pairs = <<>> /\ idx = 0 /\ pair_scores = <<>>
    /\ candidates = <<>> /\ briefings = <<>> /\ explained = <<>>
    /\ fit_calls = 0 /\ cache_misses = 0
    /\ llm_calls = <<>> /\ progress = <<>>
    /\ ChainIdle /\ TxIdle /\ ScoreIdle /\ PureIdle

\* one call of progress_callback
ProgressCall(label, frac) == [label |-> label, frac |-> frac]

\* what run has passed to the callback once the extraction loop is entered:
\* the call with 0.0 comes before the first profile
StartedProgress ==
    IF progress = <<>> THEN <<ProgressCall("Extracting profile intelligence...", 0)>>
    ELSE progress

\* (i + 1) / n * 0.25, i + 1 being done
ExtractionFraction(done, n) == (done * (One \div 4)) \div n

\* the fraction after a scored pair without the 0.30 the scoring step starts at
ScoringFractionNoBase(done, total_pairs) == (done * ((One * 4) \div 10)) \div total_pairs

\* 0.30 + ((idx + 1) / total_pairs) * 0.4, idx + 1 being done
ScoringFraction(done, total_pairs) ==
    (One * 3) \div 10 + (done * ((One * 4) \div 10)) \div total_pairs

\* 0.7 + (attendee_count / n) * 0.3 if not skip_explanations else 0.95
RankingFraction(attendee_count, n, skip) ==
    IF ~skip THEN (One * 7) \div 10 + (attendee_count * ((One * 3) \div 10)) \div n
    ELSE (One * 95) \div 100

\* the calls between the scoring loop and the ranking loop
RankingStarts == <<ProgressCall("Ranking matches...", (One * 7) \div 10)>>

\* Step 1, one profile whose hash is not cached: the LLM is asked
ExtractCall ==
    /\ pc = "extract" /\ Len(enriched) < Len(profiles)
    /\ LET profile == profiles[Len(enriched) + 1]
           h == profile_hash(profile)
       IN  /\ h \notin DOMAIN llm_cache
           /\ \E outcome \in ExtractionOutcomes :
                 /\ ~call_llm_json_raises(outcome)
                 /\ LET result == call_llm_json(outcome)
                    IN  /\ ~apply_extraction_raises(result)
                        /\ llm_cache' = (h :> result) @@ llm_cache
                        /\ llm_calls' = Append(llm_calls, LlmCall(profile, outcome))
                        /\ enriched' = Append(enriched, apply_extraction(profile, result))
                        /\ profiles' = [profiles EXCEPT ![Len(enriched) + 1] =
                                            argument_after_apply_extraction(profile, result)]
    /\ progress' = Append(StartedProgress,
                           ProgressCall("Extracting profile intelligence...",
                                        ExtractionFraction(Len(enriched) + 1, Len(profiles))))
    /\ UNCHANGED <<top_k, skip_explanations, pc, emb_cache, scoreable_pairs, idx,
                   pair_scores, candidates, briefings, explained, chainVars, txVars,
                   scoreVars, pureVars, fit_calls, cache_misses>>

\* Step 1, one profile whose hash is not cached: the API call fails, or the
\* reply is cached and then cannot be applied; the exception leaves run
ExtractAborts ==
    /\ pc = "extract" /\ Len(enriched) < Len(profiles)
    /\ LET profile == profiles[Len(enriched) + 1]
           h == profile_hash(profile)
       IN  /\ h \notin DOMAIN llm_cache
           /\ \E outcome \in ExtractionOutcomes :
                 /\ llm_calls' = Append(llm_calls, LlmCall(profile, outcome))
                 /\ \/ /\ call_llm_json_raises(outcome)
                       /\ llm_cache' = llm_cache
                    \/ /\ ~call_llm_json_raises(outcome)
                       /\ apply_extraction_raises(call_llm_json(outcome))
                       /\ llm_cache' = (h :> call_llm_json(outcome)) @@ llm_cache
    /\ pc' = "aborted"
    /\ progress' = StartedProgress
    /\ UNCHANGED <<profiles, top_k, skip_explanations, enriched, emb_cache, scoreable_pairs,
                   idx, pair_scores, candidates, briefings, explained, chainVars, txVars,
                   scoreVars, pureVars, fit_calls, cache_misses>>

\* Step 1, one profile whose hash is cached: the stored result is applied
ExtractCached ==
    /\ pc = "extract" /\ Len(enriched) < Len(profiles)
    /\ LET profile == profiles[Len(enriched) + 1]
           h == profile_hash(profile)
       IN  /\ h \in DOMAIN llm_cache
           /\ enriched' = Append(enriched, apply_extraction(profile, llm_cache[h]))
           /\ profiles' = [profiles EXCEPT ![Len(enriched) + 1] =
                               argument_after_apply_extraction(profile, llm_cache[h])]
    /\ progress' = Append(StartedProgress,
                           ProgressCall("Extracting profile intelligence...",
                                        ExtractionFraction(Len(enriched) + 1, Len(profiles))))
    /\ UNCHANGED <<top_k, skip_explanations, pc, llm_cache, emb_cache,
                   scoreable_pairs, idx, pair_scores, candidates, briefings, explained,
                   chainVars, txVars, scoreVars, pureVars, llm_calls, fit_calls, cache_misses>>

\* Step 2: the corpus of the enriched profiles is encoded
Fit ==
    /\ pc = "extract" /\ Len(enriched) = Len(profiles)
    /\ emb_cache' = fit(collect_embedding_corpus(enriched))
    /\ fit_calls' = fit_calls + 1
    /\ pc' = "pairs"
    /\ progress' = progress \o <<ProgressCall("Building embedding model...", One \div 4),
                                  ProgressCall("Building embedding model...", (One * 3) \div 10),
                                  ProgressCall("Scoring pairs...", (One * 3) \div 10)>>
    /\ UNCHANGED <<profiles, top_k, skip_explanations, enriched, llm_cache, scoreable_pairs,
                   idx, pair_scores, candidates, briefings, explained, chainVars, txVars,
                   scoreVars, pureVars, llm_calls, cache_misses>>

\* Step 3, first loop: the ordered pairs to score
CollectPairs ==
    /\ pc = "pairs"
    /\ scoreable_pairs' = CollectScoreablePairs(enriched)
    /\ idx' = 0
    /\ pc' = IF scoreable_pairs' = <<>> THEN "rank" ELSE "score"
    /\ progress' = IF scoreable_pairs' = <<>> THEN progress \o RankingStarts ELSE progress
    /\ UNCHANGED <<profiles, top_k, skip_explanations, enriched, llm_cache, emb_cache,
                   pair_scores, candidates, briefings, explained, chainVars, txVars,
                   scoreVars, pureVars, llm_calls, fit_calls, cache_misses>>

\* Step 3, second loop: one pair is scored and stored under (a.id, b.id)
ScorePair ==
    /\ pc = "score" /\ idx < Len(scoreable_pairs)
    /\ LET item == scoreable_pairs[idx + 1]
           a == enriched[item[1]]
           b == enriched[item[2]]
       IN  /\ pair_scores' = DictPut(pair_scores, ScoreOnePair(a, b, item[3], emb_cache))
           /\ emb_cache' = CacheAfter(emb_cache, TextsRequested(a, b))
           /\ cache_misses' = cache_misses + MissCount(emb_cache, TextsRequested(a, b))
    /\ idx' = idx + 1
    /\ pc' = IF idx' = Len(scoreable_pairs) THEN "rank" ELSE "score"
    /\ progress' = Append(progress,
                           ProgressCall("Scoring pairs...",
                                        ScoringFraction(idx + 1, Len(scoreable_pairs))))
                      \o (IF idx' = Len(scoreable_pairs) THEN RankingStarts ELSE <<>>)
    /\ UNCHANGED <<profiles, top_k, skip_explanations, enriched, llm_cache, scoreable_pairs,
                   candidates, briefings, explained, chainVars, txVars, scoreVars, pureVars, llm_calls, fit_calls>>

\* the pairs of one attendee's top list explained whether or not explanations
\* are skipped
ExplainedPairsIgnoringSkip(top, skip) ==
    [m \in 1..Len(top) |-> <<top[m].attendee_a_id, top[m].attendee_b_id>>]

\* the pairs of one attendee's top list that generate_explanation is called for
ExplainedPairs(top, skip) ==
    IF skip THEN <<>>
    ELSE [m \in 1..Len(top) |-> <<top[m].attendee_a_id, top[m].attendee_b_id>>]

\* Step 4, one attendee: candidates filtered, sorted, cut to k and explained.
\* The explanation LLM answers every call for one attendee alike.
RankAttendee ==
    /\ pc = "rank" /\ Len(briefings) < Len(enriched)
    /\ LET attendee == enriched[Len(briefings) + 1]
           sorted == SortByComposite(
                         SelectSeq(pair_scores,
                                   LAMBDA sp : sp.attendee_a_id = Val(attendee.id)))
           top == SubSeq(sorted, 1, Min(K, Len(sorted)))
       IN  /\ candidates' = sorted
           /\ \E reply \in IF skip_explanations THEN {EmptyDict} ELSE ExplanationReplies :
                 LET Explain(sp) ==
                         IF skip_explanations
                         THEN <<"(explanations skipped)", DimensionExplanations("", "", "")>>
                         ELSE generate_explanation(reply, ProfileMap(enriched, sp.attendee_b_id))
                     matches == [m \in 1..Len(top) |->
                                    MatchResult(top[m], Explain(top[m])[1], Explain(top[m])[2])]
                 IN  briefings' = Append(briefings,
                                         MatchBriefing(Val(attendee.id), attendee.name, matches))
           /\ explained' = explained \o ExplainedPairs(top, skip_explanations)
    /\ progress' = Append(progress,
                           ProgressCall(IF skip_explanations THEN "Ranking..."
                                        ELSE "Generating explanations...",
                                        RankingFraction(Len(briefings) + 1, Len(profiles),
                                                        skip_explanations)))
    /\ UNCHANGED <<profiles, top_k, skip_explanations, pc, enriched, llm_cache, emb_cache,
                   scoreable_pairs, idx, pair_scores, chainVars, txVars, scoreVars, pureVars, llm_calls, fit_calls, cache_misses>>

\* Step 4, one attendee: the LLM call of one of the explanations fails, after
\* the explanations before it were generated; the exception leaves run
ExplainAborts ==
    /\ pc = "rank" /\ Len(briefings) < Len(enriched)
    /\ ~skip_explanations
    /\ LET attendee == enriched[Len(briefings) + 1]
           sorted == SortByComposite(
                         SelectSeq(pair_scores,
                                   LAMBDA sp : sp.attendee_a_id = Val(attendee.id)))
           top == SubSeq(sorted, 1, Min(K, Len(sorted)))
       IN  /\ candidates' = sorted
           /\ \E failing \in 1..Len(top) :
                 explained' = explained \o ExplainedPairs(SubSeq(top, 1, failing), FALSE)
    /\ pc' = "aborted"
    /\ UNCHANGED <<profiles, top_k, skip_explanations, enriched, llm_cache, emb_cache,
                   scoreable_pairs, idx, pair_scores, briefings, chainVars, txVars,
                   scoreVars, pureVars, llm_calls, progress, fit_calls, cache_misses>>

\* the briefings are returned
Complete ==
    /\ pc = "rank" /\ Len(briefings) = Len(enriched)
    /\ pc' = "done"
    /\ progress' = Append(progress, ProgressCall("Complete", One))
    /\ UNCHANGED <<profiles, top_k, skip_explanations, enriched, llm_cache, emb_cache,
                   scoreable_pairs, idx, pair_scores, candidates, briefings, explained,
                   chainVars, txVars, scoreVars, pureVars, llm_calls, fit_calls, cache_misses>>

Next ==
    \/ ExtractCall
    \/ ExtractAborts
    \/ ExtractCached
    \/ Fit
    \/ CollectPairs
    \/ ScorePair
    \/ RankAttendee
    \/ ExplainAborts
    \/ Complete

Spec == Init /\ [][Next]_vars


RunTypeOK ==
    /\ pc \in {"idle", "extract", "aborted", "pairs", "score", "rank", "done"}
    /\ Len(enriched) <= Len(profiles)
    /\ idx <= Len(scoreable_pairs)
    /\ Len(briefings) <= Len(enriched)


---------------------------------------------------------------------------
(* Claims about the briefings run returns *)

\* the place in the input list where an attendee id first occurs
FirstIndexOfId(id) ==
    CHOOSE i \in 1..Len(enriched) :
        /\ Val(enriched[i].id) = id
        /\ \A j \in 1..(i - 1) : Val(enriched[j].id) # id

\* the place in pair-generation order where the key of a scored pair first occurs
FirstGenerated(sp) ==
    CHOOSE k \in 1..Len(scoreable_pairs) :
        LET Key(item) == <<Val(enriched[item[1]].id), Val(enriched[item[2]].id)>>
        IN  /\ Key(scoreable_pairs[k]) = <<sp.attendee_a_id, sp.attendee_b_id>>
            /\ \A m \in 1..(k - 1) :
                  Key(scoreable_pairs[m]) # <<sp.attendee_a_id, sp.attendee_b_id>>

\* C2: in every briefing run has produced, the matches are ordered by composite
\* non-increasing, each match is a pair of the briefing's own attendee, none
\* pairs the attendee with itself, and there are at most k matches (k the
\* supplied top_k, or the configured default when none is supplied).
C2_BriefingSortedNoSelfPair ==
    \A i \in 1..Len(briefings) :
        LET br == briefings[i]
            ms == br.matches
        IN  /\ \A m \in 1..(Len(ms) - 1) : ms[m].pair.composite >= ms[m + 1].pair.composite
            /\ \A m \in 1..Len(ms) :
                  /\ ms[m].pair.attendee_a_id = br.attendee_id
                  /\ ms[m].pair.attendee_b_id # br.attendee_id
            /\ Len(ms) <= K
            /\ top_k # None => Len(ms) <= Val(top_k)

\* run has returned a briefing of two matches with different composites, the
\* better one being for the attendee that comes later in the input list
C2_Witness ==
    /\ pc = "done"
    /\ top_k # None
    /\ \E i \in 1..Len(briefings) :
          LET ms == briefings[i].matches
          IN  /\ Len(ms) = 2
              /\ ms[1].pair.composite > ms[2].pair.composite
              /\ FirstIndexOfId(ms[1].pair.attendee_b_id)
                    > FirstIndexOfId(ms[2].pair.attendee_b_id)

\* C3 as stated: when run returns for n >= 2 pairwise different profiles and
\* top_k = k >= 1, there is one briefing per attendee and each holds exactly
\* min(k, n-1) matches, each for a different attendee other than its own.
C3_ExactlyMinMatches ==
    (/\ pc = "done"
     /\ Len(profiles) >= 2
     /\ top_k # None
     /\ \A i, j \in 1..Len(profiles) : i # j => profiles[i] # profiles[j])
    => /\ Len(briefings) = Len(profiles)
       /\ \A i \in 1..Len(briefings) :
             LET ms == briefings[i].matches
             IN  /\ Len(ms) = Min(Val(top_k), Len(profiles) - 1)
                 /\ \A m \in 1..Len(ms) :
                       /\ ms[m].pair.attendee_b_id # briefings[i].attendee_id
                       /\ \E j \in 1..Len(profiles) :
                             Val(profiles[j].id) = ms[m].pair.attendee_b_id
                 /\ \A m1, m2 \in 1..Len(ms) :
                       m1 # m2 => ms[m1].pair.attendee_b_id # ms[m2].pair.attendee_b_id

\* C3 for attendee lists in which no two profiles carry the same id: the
\* count min(k, n-1) is met
C3_HoldsForDistinctIds ==
    (/\ pc = "done"
     /\ Len(profiles) >= 2
     /\ top_k # None
     /\ \A i, j \in 1..Len(profiles) : i # j => profiles[i].id # profiles[j].id)
    => \A i \in 1..Len(briefings) :
          LET ms == briefings[i].matches
          IN  /\ Len(ms) = Min(Val(top_k), Len(profiles) - 1)
              /\ \A m1, m2 \in 1..Len(ms) :
                    m1 # m2 => ms[m1].pair.attendee_b_id # ms[m2].pair.attendee_b_id

\* C4: ranking is stable.  In the sorted candidate list of the attendee ranked
\* last (the list before it is cut to k), and in every briefing, two entries
\* of equal composite stand in pair-generation order, which is the order in
\* which their attendees first occur in the input list.  The briefing built
\* last is the cut of the candidate list, unless an explanation call has just
\* aborted the run, in which case the list belongs to the attendee that got no
\* briefing.
C4_StableRanking ==
    /\ \A i, j \in 1..Len(candidates) :
          (i < j /\ candidates[i].composite = candidates[j].composite)
          => /\ FirstGenerated(candidates[i]) < FirstGenerated(candidates[j])
             /\ FirstIndexOfId(candidates[i].attendee_b_id)
                   < FirstIndexOfId(candidates[j].attendee_b_id)
    /\ \A b \in 1..Len(briefings) :
          LET ms == briefings[b].matches
          IN  \A i, j \in 1..Len(ms) :
                 (i < j /\ ms[i].pair.composite = ms[j].pair.composite)
                 => FirstIndexOfId(ms[i].pair.attendee_b_id)
                       < FirstIndexOfId(ms[j].pair.attendee_b_id)
    /\ (Len(briefings) > 0 /\ pc # "aborted")
       => LET ms == briefings[Len(briefings)].matches
          IN  /\ Len(ms) = Min(K, Len(candidates))
              /\ \A m \in 1..Len(ms) : ms[m].pair = candidates[m]

\* an attendee has just been ranked whose two candidates tie, and the cut to
\* k = 1 kept the one generated first
C4_Witness ==
    /\ pc = "rank"
    /\ top_k = Some(1)
    /\ Len(candidates) = 2
    /\ candidates[1].composite = candidates[2].composite
    /\ candidates[1] # candidates[2]
    /\ Len(briefings) > 0
    /\ Len(briefings[Len(briefings)].matches) = 1


---------------------------------------------------------------------------
(* Roles without a transaction *)

\* the profile names no role: no list or an empty one, and no single role
NoRoleGiven(p) == ~TruthyList(p.roles_at_event) /\ ~TruthyStr(p.role_at_event)

\* the profile's role list holds nothing but 'other'
OnlyOtherListed(p) ==
    /\ TruthyList(p.roles_at_event)
    /\ \A i \in 1..Len(Val(p.roles_at_event)) : Val(p.roles_at_event)[i] = "other"

---------------------------------------------------------------------------
(* Calls into stage_compatibility *)

\* transaction types with a rule table, one the matrix yields without a table,
\* and one that is no type at all
StageTxTypes ==
    {"investment", "fundraising", "co_investment", "regulatory", "partnership",
     "policy_dialogue", "barter"}

StageNames ==
    {"sovereign_fund", "growth_vc", "seed_fund", "series_b", "seed", "pre_product",
     "central_bank", "growth_startup", "unknown_a"}

StageValues == {None, Some("")} \cup {Some(s) : s \in StageNames}

InitStage ==
    /\ call_args \in [fn : {"stage_compatibility"}, tx_type : StageTxTypes,
                 stage_a : StageValues, stage_b : StageValues]
    /\ call_result = NoCall
    /\ ChainIdle /\ TxIdle /\ ScoreIdle /\ RunIdle

CallStageCompatibility ==
    /\ call_args.fn = "stage_compatibility" /\ call_result = NoCall
    /\ call_result' = [fn |-> "stage_compatibility",
                  value |-> stage_compatibility(call_args.tx_type, call_args.stage_a, call_args.stage_b)]
    /\ UNCHANGED <<call_args, chainVars, txVars, scoreVars, runVars>>

NextStage == CallStageCompatibility

SpecStage == InitStage /\ [][NextStage]_vars

\* the rule table of a transaction type, empty when the type has none
RulesOf(tx_type) == IF tx_type \in DOMAIN STAGE_RULES THEN STAGE_RULES[tx_type] ELSE <<>>

\* C12: stage_compatibility returns 0.5 whenever either stage is None or empty,
\* the transaction type has no rule table, or the ordered pair of stages is not
\* listed for the type; otherwise it returns the listed value, for instance 0.9
\* for (investment, sovereign_fund, series_b).
C12_StageCompatibility ==
    call_result.fn = "stage_compatibility" =>
        LET absent == call_args.stage_a \in {None, Some("")} \/ call_args.stage_b \in {None, Some("")}
            pair == <<Val(call_args.stage_a), Val(call_args.stage_b)>>
            rules == RulesOf(call_args.tx_type)
        IN  /\ (absent \/ call_args.tx_type \notin DOMAIN STAGE_RULES \/ pair \notin DOMAIN rules)
                  => call_result.value = 500000
            /\ (~absent /\ pair \in DOMAIN rules) => call_result.value = rules[pair]
            /\ (/\ call_args.tx_type = "investment"
                /\ call_args.stage_a = Some("sovereign_fund")
                /\ call_args.stage_b = Some("series_b")) => call_result.value = 900000

\* a listed type has been asked about a pair of stages it does not list
C12_Witness ==
    /\ call_result.fn = "stage_compatibility"
    /\ call_args.tx_type = "investment"
    /\ call_args.stage_a = Some("seed") /\ call_args.stage_b = Some("seed_fund")
    /\ call_result.value = 500000


---------------------------------------------------------------------------
(* Calls into composite_score *)

\* values a dimension weight may be configured to, in hundredths: Field(ge=0.0,
\* le=1.0) admits each of them, and nothing relates the three weights
WeightGrid == {0, 20, 30, 50, 100}

ConfiguredWeights ==
    [complementarity : WeightGrid, transaction_readiness : WeightGrid, non_obvious : WeightGrid]

ScoreGrid == {0, 250000, 500000, 750000, One}

ScoreTriples ==
    {DimensionScores(c, t, n) : c \in {0, 500000, One}, t \in {0, 250000, One},
                                n \in {0, 750000, One}}

InitComposite ==
    /\ call_args \in [fn : {"composite_score"}, w : ConfiguredWeights, scores : ScoreTriples]
    /\ call_result = NoCall
    /\ ChainIdle /\ TxIdle /\ ScoreIdle /\ RunIdle

CallCompositeScore ==
    /\ call_args.fn = "composite_score" /\ call_result = NoCall
    /\ call_result' = [fn |-> "composite_score",
                       value |-> composite_with(call_args.w, call_args.scores)]
    /\ UNCHANGED <<call_args, chainVars, txVars, scoreVars, runVars>>

NextComposite == CallCompositeScore

SpecComposite == InitComposite /\ [][NextComposite]_vars

WeightSum(w) == w.complementarity + w.transaction_readiness + w.non_obvious

\* C13 as stated: for component scores in [0, 1] and any configured weights
\* (each in [0, 1]), composite_score returns a value in [0, 1].
C13_CompositeInUnitInterval ==
    call_result.fn = "composite_score" => (0 <= call_result.value /\ call_result.value <= One)

\* C13, amended: for component scores in [0, 1], composite_score returns a value
\* between 0 and the sum of the configured weights, hence a value in [0, 1]
\* when the weights sum to at most 1, as the defaults do; under the default
\* weights it is 0 for all-zero scores and 1 for all-one scores.
C13_CompositeBoundedByWeightSum ==
    call_result.fn = "composite_score" =>
        /\ 0 <= call_result.value
        /\ call_result.value * 100 <= WeightSum(call_args.w) * One
        /\ WeightSum(call_args.w) <= 100 => call_result.value <= One
        /\ call_args.w = DimensionWeights =>
              /\ call_args.scores = DimensionScores(0, 0, 0) => call_result.value = 0
              /\ call_args.scores = DimensionScores(One, One, One) => call_result.value = One

\* the default weights have been applied to all-one scores
C13_Witness ==
    /\ call_result.fn = "composite_score"
    /\ call_args.w = DimensionWeights
    /\ call_args.scores = DimensionScores(One, One, One)
    /\ call_result.value = One

\* the scores with one dimension replaced
WithDimension(scores, d, v) == [scores EXCEPT ![d] = v]

\* C14: for any non-negative weights, raising one dimension score with the other
\* two held fixed never lowers composite_score; under the default weights a
\* rise in complementarity raises the composite by more than the same rise in
\* transaction_readiness.
C14_CompositeMonotone ==
    call_result.fn = "composite_score" =>
        LET w == call_args.w
            scores == call_args.scores
        IN  /\ \A d \in DOMAIN scores, v \in ScoreGrid :
                  v > scores[d] =>
                      composite_with(w, WithDimension(scores, d, v)) >= call_result.value
            /\ w = DimensionWeights =>
                  \A delta \in ScoreGrid :
                      (/\ delta > 0
                       /\ scores.complementarity + delta <= One
                       /\ scores.transaction_readiness + delta <= One)
                      => composite_with(w, WithDimension(scores, "complementarity",
                                                         scores.complementarity + delta))
                            > composite_with(w, WithDimension(scores, "transaction_readiness",
                                                 scores.transaction_readiness + delta))

\* a call under the default weights whose complementarity and readiness can
\* both still rise
C14_Witness ==
    /\ call_result.fn = "composite_score"
    /\ call_args.w = DimensionWeights
    /\ call_args.scores = DimensionScores(500000, 250000, 750000)
    /\ call_result.value = 475000


---------------------------------------------------------------------------
(* The embedding pre-pass of run *)

\* C15: run calls embeddings.fit exactly once, after every profile has been
\* extracted and before any pair is scored, and the fitted corpus holds every
\* text the scorers request; so while pairs are scored no get_embedding call
\* misses the cache, encodes on demand or writes to the cache. The cache is
\* compared with the fitted corpus right after fit and again after the last
\* pair; the texts of each pair are looked up when the pair is next to score.
C15_FitOnceThenCacheReadsOnly ==
    /\ fit_calls <= 1
    /\ fit_calls = 0 => (pc \in {"idle", "extract", "aborted"} /\ pair_scores = <<>> /\ idx = 0)
    /\ fit_calls = 1 =>
          /\ pc \in {"pairs", "score", "rank", "done", "aborted"}
          /\ pc = "aborted" => idx = Len(scoreable_pairs)
          /\ Len(enriched) = Len(profiles)
          /\ (pc = "pairs" \/ (pc = "rank" /\ briefings = <<>>)) =>
                emb_cache = fit(collect_embedding_corpus(enriched))
          /\ (pc = "score" /\ idx < Len(scoreable_pairs)) =>
                Range(TextsRequested(enriched[scoreable_pairs[idx + 1][1]],
                                     enriched[scoreable_pairs[idx + 1][2]]))
                   \subseteq DOMAIN emb_cache
    /\ cache_misses = 0

\* run has returned after scoring at least two pairs against the fitted cache
C15_Witness ==
    /\ pc = "done"
    /\ Len(pair_scores) >= 2
    /\ fit_calls = 1 /\ cache_misses = 0
    /\ emb_cache # <<>>


---------------------------------------------------------------------------
(* Extraction outcomes *)

\* every profile extracted so far carries both vectors and at least one role
EnrichedUsable ==
    \A i \in 1..Len(enriched) :
        /\ enriched[i].needs_vector # None
        /\ enriched[i].provides_vector # None
        /\ TruthyList(enriched[i].roles_at_event)

\* C16 as stated: whatever the extraction collaborator does (a well-formed
\* result, an empty one, text that is no JSON, a wrongly-shaped result, a failed
\* call), extract_all returns a profile with a needs_vector, a provides_vector
\* and a non-empty roles_at_event, so run never aborts because of extraction.
C16_ExtractionNeverAborts ==
    /\ ~(pc = "aborted" /\ Len(enriched) < Len(profiles))
    /\ EnrichedUsable

\* C16 for the outcomes extract_all does handle: every profile it returns is
\* usable, the fallbacks filling in what the reply lacks
C16_ReturnedProfilesUsable == EnrichedUsable

\* extraction met a collaborator outcome it does not handle and run has stopped
C16_Aborted == pc = "aborted" /\ Len(enriched) < Len(profiles) /\ fit_calls = 0


---------------------------------------------------------------------------
(* Calls into extract_all *)

\* role lists and position lists a reply may carry, some entries valid, some not
ReplyRoleLists ==
    {<<>>, <<"speaker">>, <<"speaker", "raising_capital", "exploring_partnerships">>,
     <<"deploying_capital", "keynote", "raising_capital", "exploring_partnerships",
       "media_content">>}

ReplyPositionLists ==
    {<<>>,
     <<<<"tokenized_securities", "custody">>, <<"tokenized_securities", "mining">>,
       <<"defi_infrastructure", "compliance", "extra">>>>,
     <<<<"carbon_credits", "issuance">>, <<"custody", "tokenized_securities">>>>}

ReplyNeeds ==
    {[primary_need |-> "growth capital", urgency |-> "active"], [primary_need |-> ""]}

\* replies with and without each key
ExtractAllReplies ==
    {EmptyDict}
    \cup {[roles_at_event |-> rs, value_chain_positions |-> ps] :
             rs \in ReplyRoleLists, ps \in ReplyPositionLists}
    \cup {[needs |-> nd, provides |-> [primary_capability |-> "custody technology"],
           roles_at_event |-> rs] : nd \in ReplyNeeds, rs \in ReplyRoleLists}

ExtractAllOutcomes ==
    {[kind |-> "json", value |-> r] : r \in ExtractAllReplies \cup {MalformedReply}}
        \cup {[kind |-> "not_json"], [kind |-> "api_error"]}

\* the attendees of RawProfiles, one who names no role and one who names four
ExtractAllProfiles ==
    RunProfiles
    \cup {AttendeeProfile([name |-> "Di Evans", title |-> "Engineer",
                           company |-> "Delta Systems"]),
          AttendeeProfile([name |-> "Ed Fox", title |-> "Managing Director",
                           company |-> "Epsilon Partners",
                           roles_at_event |-> Some(<<"deploying_capital", "raising_capital",
                                                     "exploring_partnerships",
                                                     "seeking_technology">>)])}

InitExtract ==
    /\ call_args \in [fn : {"extract_all"}, profile : ExtractAllProfiles,
                      outcome : ExtractAllOutcomes]
    /\ call_result = NoCall
    /\ ChainIdle /\ TxIdle /\ ScoreIdle /\ RunIdle

\* extract_all on an empty cache: the enriched copy, or the exception
CallExtractAll ==
    /\ call_args.fn = "extract_all" /\ call_result = NoCall
    /\ call_result' =
          IF call_llm_json_raises(call_args.outcome)
          THEN [fn |-> "extract_all", outcome |-> "raised"]
          ELSE LET data == call_llm_json(call_args.outcome)
               IN  IF apply_extraction_raises(data)
                   THEN [fn |-> "extract_all", outcome |-> "raised"]
                   ELSE [fn |-> "extract_all", outcome |-> "returned",
                         profile |-> apply_extraction(call_args.profile, data)]
    /\ UNCHANGED <<call_args, chainVars, txVars, scoreVars, runVars>>

NextExtract == CallExtractAll

SpecExtract == InitExtract /\ [][NextExtract]_vars

\* the roles and positions of the profile extract_all returned
ReturnedRoles == OrEmpty(call_result.profile.roles_at_event)

ReturnedPositions == OrEmpty(call_result.profile.value_chain_positions)

CanonicalRoles ==
    {"deploying_capital", "raising_capital", "exploring_partnerships", "seeking_technology",
     "regulatory_policy", "media_content", "other"}

\* C17 as stated: after extract_all the profile's roles_at_event holds between 1
\* and 3 labels, each one of the 7 canonical labels, whatever list the
\* collaborator returned, and its value_chain_positions hold only pairs of the
\* Value-Chain Model.
C17_OneToThreeCanonicalRoles ==
    (call_result.fn = "extract_all" /\ call_result.outcome = "returned") =>
        /\ Len(ReturnedRoles) >= 1 /\ Len(ReturnedRoles) <= 3
        /\ Range(ReturnedRoles) \subseteq CanonicalRoles
        /\ \A i \in 1..Len(ReturnedPositions) : Catalogued(ReturnedPositions[i])

\* C17 without the upper bound: at least one label, every label canonical,
\* every position catalogued
C17_CanonicalRolesValidPositions ==
    (call_result.fn = "extract_all" /\ call_result.outcome = "returned") =>
        /\ Len(ReturnedRoles) >= 1
        /\ Range(ReturnedRoles) \subseteq CanonicalRoles
        /\ \A i \in 1..Len(ReturnedPositions) : Catalogued(ReturnedPositions[i])

\* the collaborator listed four canonical roles and extract_all kept all four
C17_FourRolesKept ==
    /\ call_result.fn = "extract_all" /\ call_result.outcome = "returned"
    /\ Len(DictGet(call_llm_json(call_args.outcome), "roles_at_event", <<>>)) = 5
    /\ Len(ReturnedRoles) = 4


---------------------------------------------------------------------------
(* Embedding failures while a pair is scored *)

\* C18 as stated: when the embedding collaborator raises for a text while a
\* pair is scored, neither complementarity.score nor non_obvious.score lets the
\* failure out; the affected signal counts as 0 and the scorer returns a score.
C18_EmbeddingFailureDegrades ==
    /\ score_out.fn # "raised"
    /\ (score_out.fn = "non_obvious" /\ "degraded" \in DOMAIN score_out) =>
          (score_out.embed_sim = 0 /\ 0 <= score_out.score /\ score_out.score <= One)

\* the part of C18 the code meets: a RuntimeError inside non_obvious.score
\* degrades the embedding signal to 0 and a score in [0, 1] is returned
C18_NonObviousRuntimeErrorDegrades ==
    (score_out.fn = "non_obvious" /\ "degraded" \in DOMAIN score_out) =>
        /\ score_out.embed_sim = 0
        /\ score_out.score = non_obvious_from(prof_a, prof_b, 0)
        /\ 0 <= score_out.score /\ score_out.score <= One

\* complementarity.score has let an encoder failure out
C18_ComplementarityRaised == score_out.fn = "raised" /\ score_out.by = "complementarity"


---------------------------------------------------------------------------
(* The caller's profiles *)

---------------------------------------------------------------------------
(* Direction of the complementarity score *)

\* complementarity.score(B, A) for the call recorded in score_out: its
\* ab_alignment is cosine(B needs, A provides), the ba_alignment of the call
\* (A, B), and its ba_alignment is cosine(A needs, B provides)
ReverseComplementarity ==
    complementarity_from(prof_b, prof_a, score_out.ba, score_out.ab)

\* C20 as stated: there are profiles A and B, with some embedding similarities
\* and value-chain positions, for which complementarity.score(A, B) differs
\* from complementarity.score(B, A). A and B range over the modelled profiles,
\* the pair at hand included.
C20_ComplementarityDirectionSensitive ==
    \E a \in ScoreProfiles \cup {prof_a}, b \in ScoreProfiles \cup {prof_b} :
        \E ab \in CosGrid, ba \in CosGrid :
            complementarity_from(a, b, ab, ba) # complementarity_from(b, a, ba, ab)

\* what the code computes instead: every call of complementarity.score returns
\* the score the reverse call returns
C20_ComplementaritySymmetric ==
    score_out.fn = "complementarity" => score_out.score = ReverseComplementarity

\* a scored pair with different one-way alignments and different value-chain
\* positions on the two sides, whose two directions still score the same
C20_SameScoreBothWays ==
    /\ score_out.fn = "complementarity"
    /\ score_out.ab # score_out.ba
    /\ prof_a.value_chain_positions # prof_b.value_chain_positions
    /\ prof_a.needs_vector # prof_b.needs_vector
    /\ score_out.score = ReverseComplementarity


---------------------------------------------------------------------------
(* Calls into the inference helpers *)

\* the keywords of the seniority table
SeniorityKeywords == {TITLE_SENIORITY[i][1] : i \in 1..Len(TITLE_SENIORITY)}

\* titles: every keyword alone, every two keywords side by side, and titles as
\* people write them, with capitals, with no keyword, and empty
Titles ==
    SeniorityKeywords
        \cup {k1 \o " and " \o k2 : k1 \in SeniorityKeywords, k2 \in SeniorityKeywords}
        \cup {"", "Engineer", "Vice President", "Managing Director", "Director",
              "Co-Founder", "General Partner", "Head of Policy", "Senior Analyst",
              "Founder & CEO", "VP Sales", "CEO", "Research ANALYST", "Advisor"}

\* stage labels: the stages of the rule tables, free-form ones, and absent ones
MaturityStages ==
    {None, Some(""), Some("seed"), Some("pre_seed"), Some("series_a"), Some("series_b"),
     Some("Series_C"), Some("growth_vc"), Some("scale_up"), Some("pre_product"),
     Some("central_bank")}

KeyFacts ==
    {"Live in 3 markets", "12 customers deployed in production",
     "Bank partner signed", "Founded in 2021",
     "Live with customers, deployed to production at a partner bank"}

MaxKeyFacts == 2

KeyFactLists == SeqsUpTo(KeyFacts, MaxKeyFacts)

InitInfer ==
    /\ call_args \in [fn : {"infer_mandate_score"}, title : Titles]
                        \cup [fn : {"infer_maturity_score"}, key_facts : KeyFactLists,
                              stage : MaturityStages]
    /\ call_result = NoCall
    /\ ChainIdle /\ TxIdle /\ ScoreIdle /\ RunIdle

CallInferMandateScore ==
    /\ call_args.fn = "infer_mandate_score" /\ call_result = NoCall
    /\ call_result' = [fn |-> "infer_mandate_score",
                       score |-> infer_mandate_score(call_args.title)]
    /\ UNCHANGED <<call_args, chainVars, txVars, scoreVars, runVars>>

CallInferMaturityScore ==
    /\ call_args.fn = "infer_maturity_score" /\ call_result = NoCall
    /\ call_result' = [fn |-> "infer_maturity_score",
                       score |-> infer_maturity_score(call_args.key_facts, call_args.stage)]
    /\ UNCHANGED <<call_args, chainVars, txVars, scoreVars, runVars>>

NextInfer == CallInferMandateScore \/ CallInferMaturityScore

SpecInfer == InitInfer /\ [][NextInfer]_vars

\* the table rows whose keyword occurs in the lower-cased title
KeywordsFound(title) ==
    {i \in 1..Len(TITLE_SENIORITY) : Contains(Lower(title), TITLE_SENIORITY[i][1])}

\* two different table rows overlap: the keyword of one occurs inside the other
KeywordsOverlap(i, j) ==
    i # j /\ Contains(TITLE_SENIORITY[i][1], TITLE_SENIORITY[j][1])

\* C21: infer_mandate_score lower-cases the title and returns the score of the
\* first keyword of the table, in table order, that occurs in it, or 0.5 when
\* none occurs; of two overlapping keywords with different scores the
\* higher-scoring one stands earlier in the table.
C21_FirstKeywordWins ==
    /\ call_result.fn = "infer_mandate_score" =>
          LET found == KeywordsFound(call_args.title)
          IN  IF found = {} THEN call_result.score = 500000
              ELSE \E i \in found :
                      /\ \A j \in found : i <= j
                      /\ call_result.score = TITLE_SENIORITY[i][2]
    /\ (call_result = NoCall /\ call_args.fn = "infer_mandate_score") =>
          \A i, j \in 1..Len(TITLE_SENIORITY) :
              /\ (KeywordsOverlap(i, j) /\ TITLE_SENIORITY[i][2] > TITLE_SENIORITY[j][2])
                    => i < j
              /\ (KeywordsOverlap(i, j) /\ TITLE_SENIORITY[j][2] > TITLE_SENIORITY[i][2])
                    => j < i

\* a title holding two keywords that do not overlap has been scored by the
\* earlier one, which is not the higher-scoring one of the two
C21_Witness ==
    /\ call_result.fn = "infer_mandate_score"
    /\ call_args.title = "cto and founder"
    /\ call_result.score = 850000


---------------------------------------------------------------------------
(* The maturity score *)

LateStageMarkers == {"series_b", "series_c", "growth", "scale"}

EarlyStageMarkers == {"series_a", "seed"}

\* h: how many of the six maturity keywords occur in the joined, lower-cased facts
SignalHits(key_facts) ==
    Cardinality({i \in 1..Len(MATURITY_SIGNALS) :
                    Contains(Lower(Join(key_facts, " ")), MATURITY_SIGNALS[i])})

\* the stage adjustment as the three rules read: each rule applies on its own
StageAdjustmentEachRule(stage) ==
    IF ~TruthyStr(stage) THEN 0
    ELSE LET stage_l == Lower(Val(stage))
         IN  (IF ContainsAny(stage_l, LateStageMarkers) THEN 200000 ELSE 0)
                + (IF ContainsAny(stage_l, EarlyStageMarkers) THEN 100000 ELSE 0)
                - (IF Contains(stage_l, "pre") THEN 100000 ELSE 0)

\* the stage adjustment of the if/elif chain: only the first rule that applies
StageAdjustmentFirstRule(stage) ==
    IF ~TruthyStr(stage) THEN 0
    ELSE LET stage_l == Lower(Val(stage))
         IN  IF ContainsAny(stage_l, LateStageMarkers) THEN 200000
             ELSE IF ContainsAny(stage_l, EarlyStageMarkers) THEN 100000
             ELSE IF Contains(stage_l, "pre") THEN -100000
             ELSE 0

\* C22 as stated: infer_maturity_score is, clamped to [0, 1], 0.5 plus the
\* stage adjustment plus min(0.05 h, 0.2), where the adjustment adds 0.2 for a
\* late-stage marker, adds 0.1 for an early-stage marker and subtracts 0.1 when
\* the stage contains 'pre'.
C22_MaturityFormula ==
    call_result.fn = "infer_maturity_score" =>
        call_result.score =
            Min(Max(500000 + StageAdjustmentEachRule(call_args.stage)
                       + Min(50000 * SignalHits(call_args.key_facts), 200000), 0), One)

\* what the code computes: the same sum with the adjustment of the first rule
\* that applies, late before early before 'pre'
C22_MaturityFormulaFirstRule ==
    call_result.fn = "infer_maturity_score" =>
        call_result.score =
            Min(Max(500000 + StageAdjustmentFirstRule(call_args.stage)
                       + Min(50000 * SignalHits(call_args.key_facts), 200000), 0), One)

\* stage 'pre_seed' with no key facts has been scored 0.6: the early-stage 0.1
\* is added and the 0.1 for 'pre' is not subtracted
C22_PreSeedNotLowered ==
    /\ call_result.fn = "infer_maturity_score"
    /\ call_args.stage = Some("pre_seed") /\ call_args.key_facts = <<>>
    /\ call_result.score = 600000


---------------------------------------------------------------------------
(* Calls into the alignment sub-score of transaction-readiness *)

InitAlign ==
    /\ call_args \in [fn : {"score_alignment"}, a : ScoreProfiles, b : ScoreProfiles]
    /\ call_result = NoCall
    /\ ChainIdle /\ TxIdle /\ ScoreIdle /\ RunIdle

CallScoreAlignment ==
    /\ call_args.fn = "score_alignment" /\ call_result = NoCall
    /\ call_result' = [fn |-> "score_alignment",
                       value |-> score_alignment(call_args.a, call_args.b)]
    /\ UNCHANGED <<call_args, chainVars, txVars, scoreVars, runVars>>

NextAlign == CallScoreAlignment

SpecAlign == InitAlign /\ [][NextAlign]_vars

\* the regions both provides vectors reach; empty when either vector is absent
ReachOverlap(a, b) ==
    IF a.provides_vector = None \/ b.provides_vector = None THEN {}
    ELSE Range(Val(a.provides_vector).geographic_reach)
            \cap Range(Val(b.provides_vector).geographic_reach)

SameSector(a, b) == TruthyStr(a.sector) /\ TruthyStr(b.sector) /\ a.sector = b.sector

\* C23 as stated: the alignment sub-score is 0.4, plus 0.2 when both sectors
\* are present and equal, plus a reach bonus when both provides vectors exist
\* and their reach sets overlap: 0.2 whenever the overlap holds a region other
\* than 'global', 0.1 when the overlap is exactly {'global'}; capped at 1.0.
C23_AlignmentSubScore ==
    call_result.fn = "score_alignment" =>
        LET overlap == ReachOverlap(call_args.a, call_args.b)
            geo_bonus == IF overlap = {} THEN 0
                         ELSE IF overlap = {"global"} THEN 100000
                         ELSE 200000
        IN  call_result.value =
                Min(400000 + (IF SameSector(call_args.a, call_args.b) THEN 200000 ELSE 0)
                       + geo_bonus, One)

\* what the code computes: the full reach bonus only when 'global' is not in
\* the overlap at all, and 0.1 for every overlap that holds 'global'
C23_AlignmentGlobalHalves ==
    call_result.fn = "score_alignment" =>
        LET overlap == ReachOverlap(call_args.a, call_args.b)
            geo_bonus == IF overlap = {} THEN 0
                         ELSE IF "global" \in overlap THEN 100000
                         ELSE 200000
        IN  call_result.value =
                Min(400000 + (IF SameSector(call_args.a, call_args.b) THEN 200000 ELSE 0)
                       + geo_bonus, One)

\* both sides reach europe and global, no shared sector, and the sub-score is
\* 0.5: the shared region europe earns only the 0.1 of a global-only overlap
C23_EuropeAndGlobalHalved ==
    /\ call_result.fn = "score_alignment"
    /\ ReachOverlap(call_args.a, call_args.b) = {"europe", "global"}
    /\ ~SameSector(call_args.a, call_args.b)
    /\ call_result.value = 500000


---------------------------------------------------------------------------
(* Calls into non_obvious_tag_score *)

\* three catalogued positions, two of them sharing one tag, and one position
\* the catalogue does not hold
TagPositions ==
    {<<"tokenized_securities", "issuance">>, <<"defi_infrastructure", "compliance">>,
     <<"defi_infrastructure", "wallet_access">>, <<"real_estate", "brokerage">>}

TagPositionLists == SeqsUpTo(TagPositions, MaxPositions)

InitTag ==
    /\ call_args \in [fn : {"non_obvious_tag_score"}, positions_a : TagPositionLists,
                      positions_b : TagPositionLists, sector_a : Sectors, sector_b : Sectors]
    /\ call_result = NoCall
    /\ ChainIdle /\ TxIdle /\ ScoreIdle /\ RunIdle

CallNonObviousTagScore ==
    /\ call_args.fn = "non_obvious_tag_score" /\ call_result = NoCall
    /\ call_result' = [fn |-> "non_obvious_tag_score",
                       value |-> non_obvious_tag_score(call_args.positions_a,
                                                       call_args.positions_b,
                                                       call_args.sector_a, call_args.sector_b)]
    /\ UNCHANGED <<call_args, chainVars, txVars, scoreVars, runVars>>

NextTag == CallNonObviousTagScore

SpecTag == InitTag /\ [][NextTag]_vars

\* the union of the tags of one side's positions
TagUnion(positions) == UNION {TagsOf(positions[i]) : i \in 1..Len(positions)}

\* |shared| / |union of both sides' tags|, and the same boosted and capped
JaccardOf(pas, pbs) ==
    (Cardinality(TagUnion(pas) \cap TagUnion(pbs)) * One)
        \div Cardinality(TagUnion(pas) \cup TagUnion(pbs))

\* the value C24 describes, given whether the boost applies
TagScoreWith(pas, pbs, boosted) ==
    IF TagUnion(pas) \cap TagUnion(pbs) = {} THEN 0
    ELSE IF boosted THEN Min(Pct(150, JaccardOf(pas, pbs)), One)
    ELSE JaccardOf(pas, pbs)

\* for fixed positions the cross-sector score is not below the same-sector
\* score, and the score of the call equals the score of the swapped call
BoostNeverLowersAndSymmetric ==
    /\ non_obvious_tag_score(call_args.positions_a, call_args.positions_b,
                             Some("defi"), Some("tradfi"))
          >= non_obvious_tag_score(call_args.positions_a, call_args.positions_b,
                                   Some("defi"), Some("defi"))
    /\ call_result.value =
          non_obvious_tag_score(call_args.positions_b, call_args.positions_a,
                                call_args.sector_b, call_args.sector_a)

\* C24 as stated: non_obvious_tag_score is 0 when the two sides' tag unions
\* share no tag, otherwise |shared| / |union|, multiplied by 1.5 and capped at
\* 1.0 exactly when both sectors are present (given and not empty) and
\* differ; the cross-sector score is never lower than the same-sector score,
\* and the score is symmetric in the two attendees.
C24_TagScore ==
    call_result.fn = "non_obvious_tag_score" =>
        /\ call_result.value =
              TagScoreWith(call_args.positions_a, call_args.positions_b,
                           /\ TruthyStr(call_args.sector_a)
                           /\ TruthyStr(call_args.sector_b)
                           /\ call_args.sector_a # call_args.sector_b)
        /\ BoostNeverLowersAndSymmetric

\* what the code computes: the boost applies whenever neither sector is None
\* and the two differ, an empty sector string counting as a sector
C24_TagScoreEmptySectorCounts ==
    call_result.fn = "non_obvious_tag_score" =>
        /\ call_result.value =
              TagScoreWith(call_args.positions_a, call_args.positions_b,
                           /\ call_args.sector_a # None
                           /\ call_args.sector_b # None
                           /\ call_args.sector_a # call_args.sector_b)
        /\ BoostNeverLowersAndSymmetric

\* one attendee's sector is the empty string, the positions share one tag of
\* five, and the score carries the cross-sector boost: 0.3 instead of 0.2
C24_EmptySectorBoosted ==
    /\ call_result.fn = "non_obvious_tag_score"
    /\ call_args.sector_a = Some("") /\ call_args.sector_b = Some("defi")
    /\ call_args.positions_a = <<<<"defi_infrastructure", "compliance">>>>
    /\ call_args.positions_b = <<<<"defi_infrastructure", "wallet_access">>>>
    /\ call_result.value = 300000


---------------------------------------------------------------------------
(* Transaction type and transaction-readiness of a scored pair *)

\* the scored pair is what transaction_readiness.score returns for two of the
\* enriched profiles that carry its ids
ScorerAgrees(sp) ==
    \E i, j \in 1..Len(enriched) :
        /\ enriched[i].id = Some(sp.attendee_a_id)
        /\ enriched[j].id = Some(sp.attendee_b_id)
        /\ transaction_readiness_score(enriched[i], enriched[j])
              = <<sp.scores.transaction_readiness, sp.transaction_type>>

\* C25: in every ScoredPair of run the transaction type is None if and only if
\* the transaction-readiness score is 0, and a type that is not None is the
\* one transaction_readiness.score itself resolves for the pair. The scorer is
\* asked again once, when the last pair has been scored.
C25_TypeMatchesReadiness ==
    /\ \A k \in 1..Len(pair_scores) :
          (pair_scores[k].transaction_type = None)
              <=> (pair_scores[k].scores.transaction_readiness = 0)
    /\ (pc = "rank" /\ briefings = <<>>) =>
          \A k \in 1..Len(pair_scores) : ScorerAgrees(pair_scores[k])

\* all pairs of a run have been scored, one with a type and a positive
\* readiness and one without a type
C25_Witness ==
    /\ pc = "rank" /\ briefings = <<>>
    /\ \E k \in 1..Len(pair_scores) :
          /\ pair_scores[k].transaction_type # None
          /\ pair_scores[k].scores.transaction_readiness > 0
    /\ \E k \in 1..Len(pair_scores) :
          /\ pair_scores[k].transaction_type = None
          /\ pair_scores[k].scores.transaction_readiness = 0


---------------------------------------------------------------------------
(* The extraction cache over successive extract_all calls *)

MaxExtractCalls == 3

\* two profiles with the name Ann Lee and different titles, Bo Chen, and a
\* second Bo Chen record with the same five key fields and other roles, sector
\* and id
CacheProfiles ==
    {AttendeeProfile(raw) : raw \in
        {[name |-> "Ann Lee", title |-> "General Partner", company |-> "Alpha Capital",
          roles_at_event |-> Some(<<"deploying_capital">>)],
         [name |-> "Ann Lee", title |-> "Head of Policy", company |-> "Gamma Authority",
          role_at_event |-> Some("regulatory_policy")],
         [id |-> Some("bo"), name |-> "Bo Chen", title |-> "Founder & CEO",
          company |-> "Beta Labs", role_at_event |-> Some("raising_capital"),
          product |-> Some("Custody platform"), sector |-> Some("defi")],
         [id |-> Some("bo-2"), name |-> "Bo Chen", title |-> "Founder & CEO",
          company |-> "Beta Labs", roles_at_event |-> Some(<<"seeking_technology">>),
          product |-> Some("Custody platform"), sector |-> Some("tradfi")]}}

\* the module is loaded: the cache is empty and nothing has been called
InitCache == ChainIdle /\ TxIdle /\ ScoreIdle /\ RunIdle /\ PureIdle

\* what extract_all hands back once it has the extraction data
ExtractAllResult(profile, data, hit) ==
    IF apply_extraction_raises(data)
    THEN [fn |-> "extract_all", given |-> profile, hit |-> hit, data |-> data,
          outcome |-> "raised"]
    ELSE [fn |-> "extract_all", given |-> profile, hit |-> hit, data |-> data,
          outcome |-> "returned", profile |-> apply_extraction(profile, data)]

\* extract_all for a profile whose hash is not cached: the LLM is called, and
\* its result, if there is one, is cached before it is applied
ExtractAllCall ==
    /\ idx < MaxExtractCalls
    /\ \E profile \in CacheProfiles, outcome \in ExtractionOutcomes :
          /\ profile_hash(profile) \notin DOMAIN llm_cache
          /\ llm_calls' = Append(llm_calls, LlmCall(profile, outcome))
          /\ IF call_llm_json_raises(outcome)
             THEN /\ llm_cache' = llm_cache
                  /\ call_result' = [fn |-> "extract_all", given |-> profile, hit |-> FALSE,
                                     data |-> EmptyDict, outcome |-> "raised"]
             ELSE /\ llm_cache' = (profile_hash(profile) :> call_llm_json(outcome)) @@ llm_cache
                  /\ call_result' = ExtractAllResult(profile, call_llm_json(outcome), FALSE)
    /\ idx' = idx + 1
    /\ UNCHANGED <<profiles, top_k, skip_explanations, pc, enriched, emb_cache,
                   scoreable_pairs, pair_scores, candidates, briefings, explained, fit_calls,
                   cache_misses, progress, call_args, chainVars, txVars, scoreVars>>

\* extract_all for a profile whose hash is cached: the stored data is applied
ExtractAllCached ==
    /\ idx < MaxExtractCalls
    /\ \E profile \in CacheProfiles :
          /\ profile_hash(profile) \in DOMAIN llm_cache
          /\ call_result' = ExtractAllResult(profile, llm_cache[profile_hash(profile)], TRUE)
    /\ idx' = idx + 1
    /\ UNCHANGED <<profiles, top_k, skip_explanations, pc, enriched, llm_cache, emb_cache,
                   scoreable_pairs, pair_scores, candidates, briefings, explained, fit_calls,
                   cache_misses, llm_calls, progress, call_args, chainVars, txVars, scoreVars>>

\* clear_cache(): the cache is emptied; the record of calls starts afresh
ClearCache ==
    /\ llm_calls # <<>>
    /\ llm_cache' = <<>>
    /\ llm_calls' = <<>>
    /\ call_result' = [fn |-> "clear_cache"]
    /\ UNCHANGED <<profiles, top_k, skip_explanations, pc, enriched, emb_cache,
                   scoreable_pairs, idx, pair_scores, candidates, briefings, explained,
                   fit_calls, cache_misses, progress, call_args, chainVars, txVars,
                   scoreVars>>

NextCache == ExtractAllCall \/ ExtractAllCached \/ ClearCache

SpecCache == InitCache /\ [][NextCache]_vars

\* extract_all has just answered from the cache
CacheHit == call_result.fn = "extract_all" /\ call_result.hit

\* a cache hit applies the data an earlier call for the same five fields got
\* from the LLM, also when that data is empty
HitAppliesStoredData ==
    CacheHit =>
        /\ \E i \in 1..Len(llm_calls) :
              /\ llm_calls[i].fields = FiveFields(call_result.given)
              /\ llm_calls[i].returned
              /\ llm_calls[i].data = call_result.data
        /\ call_result.outcome = "returned" =>
              call_result.profile = apply_extraction(call_result.given, call_result.data)

\* a step that ends in a cache hit calls no LLM
HitCallsNoLlm == (call_result'.fn = "extract_all" /\ call_result'.hit) => llm_calls' = llm_calls

C26_CalledAgainAfterFailure ==
    /\ Len(llm_calls) = 2
    /\ llm_calls[1].fields = llm_calls[2].fields
    /\ ~llm_calls[1].returned /\ llm_calls[2].returned


---------------------------------------------------------------------------
(* The explanation calls of a run *)

\* the briefings run hands back: none unless it returns
ReturnedBriefings == IF pc = "done" THEN briefings ELSE <<>>

RECURSIVE TotalMatches(_)
TotalMatches(bs) ==
    IF bs = <<>> THEN 0 ELSE Len(Head(bs).matches) + TotalMatches(Tail(bs))

\* every explanation call was made for a pair that is a match of one of bs
ExplainedAreMatchesOf(bs) ==
    \A i \in 1..Len(explained) :
        \E b \in 1..Len(bs) : \E m \in 1..Len(bs[b].matches) :
            /\ bs[b].matches[m].pair.attendee_a_id = explained[i][1]
            /\ bs[b].matches[m].pair.attendee_b_id = explained[i][2]

\* explanation calls are made only when explanations are not skipped, and only
\* once the scoring loop has gone through every pair
ExplainedLateAndNotSkipped ==
    /\ skip_explanations => explained = <<>>
    /\ explained # <<>> =>
          /\ pc \in {"rank", "done", "aborted"}
          /\ idx = Len(scoreable_pairs)
          /\ \A k \in 1..Len(scoreable_pairs) :
                \E sp \in Range(pair_scores) :
                    /\ sp.attendee_a_id = Val(enriched[scoreable_pairs[k][1]].id)
                    /\ sp.attendee_b_id = Val(enriched[scoreable_pairs[k][2]].id)

C27_ExplainedThenAborted == pc = "aborted" /\ explained # <<>> /\ briefings # <<>>


---------------------------------------------------------------------------
(* The fractions run reports to progress_callback *)

ProgressNonDecreasing ==
    \A i \in 1..(Len(progress) - 1) : progress[i].frac <= progress[i + 1].frac

\* C28: the fractions passed to progress_callback during a run over n >= 1
\* profiles are non-decreasing, lie in [0, 1] and start at 0.0; when run returns
\* the last call is ("Complete", 1.0), whether or not explanations are skipped.
C28_ProgressNonDecreasingToOne ==
    /\ ProgressNonDecreasing
    /\ \A i \in 1..Len(progress) : progress[i].frac \in 0..One
    /\ progress # <<>> => progress[1].frac = 0
    /\ pc # "extract" => progress # <<>>
    /\ pc = "done" => progress[Len(progress)] = ProgressCall("Complete", One)
    /\ \A i \in 1..(Len(progress) - 1) : progress[i].label # "Complete"

\* a run over three profiles with explanations skipped has returned: fractions
\* strictly inside the scoring band, then 0.95 per attendee, then 1.0
C28_Witness ==
    /\ pc = "done" /\ skip_explanations /\ Len(profiles) = 3
    /\ \E i \in 1..Len(progress) :
          /\ progress[i].label = "Scoring pairs..."
          /\ progress[i].frac > (One * 3) \div 10 /\ progress[i].frac < (One * 7) \div 10
    /\ \E i \in 1..(Len(progress) - 1) :
          /\ progress[i].frac = (One * 95) \div 100
          /\ progress[i + 1].frac = One

\* the same with explanations generated: the ranking band is climbed in thirds
C28_WitnessExplained ==
    /\ pc = "done" /\ ~skip_explanations /\ Len(profiles) = 3
    /\ \E i \in 1..Len(progress) :
          /\ progress[i].label = "Generating explanations..."
          /\ progress[i].frac = (One * 8) \div 10


---------------------------------------------------------------------------
(* Whether a pair of role lists has a transaction type, in either direction *)

\* C29: for all lists of canonical roles, best_transaction_type(roles_a, roles_b)
\* is None exactly when best_transaction_type(roles_b, roles_a) is None: which
\* pairs have a type does not depend on the direction, though the type may.
C29_NoTypeBothWaysOrNeither ==
    tx_out.fn = "best_transaction_type" =>
        /\ \A i \in 1..Len(roles_a) : roles_a[i] \in Range(ROLES)
        /\ \A j \in 1..Len(roles_b) : roles_b[j] \in Range(ROLES)
        /\ (tx_out.tx = None) <=> (best_transaction_type(roles_b, roles_a) = None)

\* a call where both directions have a type and the two types differ
C29_Witness ==
    /\ tx_out.fn = "best_transaction_type"
    /\ Len(roles_a) = 2 /\ Len(roles_b) = 2
    /\ tx_out.tx # None
    /\ best_transaction_type(roles_b, roles_a) # None
    /\ best_transaction_type(roles_b, roles_a) # tx_out.tx

\* a call over two roles each, all different, where neither direction has a type
C29_WitnessNone ==
    /\ tx_out.fn = "best_transaction_type"
    /\ Len(roles_a) = 2 /\ Len(roles_b) = 2
    /\ Cardinality(Range(roles_a) \cup Range(roles_b)) = 4
    /\ tx_out.tx = None
    /\ best_transaction_type(roles_b, roles_a) = None


---------------------------------------------------------------------------
(* Whether every seniority keyword is reachable *)

\* the score the table lists for a keyword
TableScore(keyword) ==
    LET i == CHOOSE i \in 1..Len(TITLE_SENIORITY) : TITLE_SENIORITY[i][1] = keyword
    IN  TITLE_SENIORITY[i][2]

\* C30 as stated: every keyword of the seniority table is effective: for a
\* title that is exactly the keyword, infer_mandate_score returns the score the
\* table lists for it.
C30_EveryKeywordEffective ==
    (call_result.fn = "infer_mandate_score" /\ call_args.title \in SeniorityKeywords) =>
        call_result.score = TableScore(call_args.title)

\* what the code does: "vice president" is answered by "president" and
\* "director" by the "cto" inside it; every other keyword returns its own score
C30_EffectiveButTwo ==
    (call_result.fn = "infer_mandate_score" /\ call_args.title \in SeniorityKeywords) =>
        call_result.score =
            IF call_args.title = "vice president" THEN TableScore("president")
            ELSE IF call_args.title = "director" THEN TableScore("cto")
            ELSE TableScore(call_args.title)

\* the title 'vice president' has been scored 0.9, the table lists 0.7
C30_VicePresidentShadowed ==
    /\ call_result.fn = "infer_mandate_score"
    /\ call_args.title = "vice president"
    /\ call_result.score = 900000
    /\ TableScore("vice president") = 700000

\* the title 'director' has been scored 0.85, the table lists 0.75
C30_DirectorShadowed ==
    /\ call_result.fn = "infer_mandate_score"
    /\ call_args.title = "director"
    /\ call_result.score = 850000
    /\ TableScore("director") = 750000


============================================================================
